---------------------------- MODULE Spec2Model ----------------------------
(***************************************************************************)
(* Model of the knowledge-graph core of siyuan-plugin-ai-graph:            *)
(*   - SearchAPI.findEntityPath and SearchAPI.getEntityGraph (graph        *)
(*     queries over the stored relationships),                             *)
(*   - EntityExtractor.extract / RelationExtractor.extract (rule passes    *)
(*     with an optional LLM pass),                                         *)
(*   - DocumentProcessor.processDocument / processBatch over the storage   *)
(*     managers.                                                           *)
(* Confidences are kept in tenths (0.7 is 7) so that they stay integers.   *)
(***************************************************************************)
EXTENDS Integers, Sequences, FiniteSets, TLC

VARIABLES
    \* ---- storage (DatabaseManager / IndexedDBManager tables) ----
    backend,        \* which manager the caller constructed
    documents,      \* stored document rows, in insertion order
    entities,       \* stored entity rows, in id order
    relationships,  \* stored relationship rows, in insertion order
    nextEntityId,   \* AUTOINCREMENT counter of the entities table
    nextRelationshipId, \* AUTOINCREMENT counter of the relationships table
    entitySimilarity,   \* stored similarity records, in insertion order
    entityAliases,      \* stored alias rows {entityId, alias}, in insertion order
    \* ---- SearchAPI graph queries ----
    variant,        \* which SearchAPI source is running
    pc,             \* position of the running query
    args,           \* arguments of the running query
    queue,          \* findEntityPath: BFS queue
    visited,        \* visited entity ids (both queries)
    nodes,          \* getEntityGraph: Map entityId -> Entity, in insertion order
    edges,          \* getEntityGraph: Map edgeKey -> Relationship, in insertion order
    stack,          \* getEntityGraph: call stack of fetchEntityRelations
    result,         \* value returned to (or error thrown at) the caller
    \* ---- DocumentProcessor ----
    indexEntries,   \* stored inverted-index entries
    llmConfig,      \* LLM configuration held by the two extractors
    doc,            \* processDocument: its argument
    locals,         \* processDocument: tokens, entities, relationships
    trace,          \* processDocument: the steps taken so far, in order;
                    \* storage interface: the calls made so far, in order
    faults,         \* processDocument: operations that failed in this call
    batch,          \* processBatch: documents, results so far
    calls           \* processDocument / storage calls started so far

storageVars == <<backend, documents, entities, relationships, nextEntityId,
                 nextRelationshipId, indexEntries, entitySimilarity, entityAliases>>
graphVars   == <<variant, args, queue, visited, nodes, edges, stack>>
queryVars   == <<graphVars, pc, result>>
pipeVars    == <<llmConfig, doc, locals, trace, faults, batch, calls>>
vars        == <<storageVars, queryVars, pipeVars>>

(***************************************************************************)
(* Bounds                                                                  *)
(***************************************************************************)
NumEntities == 3      \* entity ids 1..NumEntities are stored
MaxRels     == 3      \* stored relationships in a graph-query run
MaxDepthArg == 2      \* largest depth / maxDepth argument tried

NoId    == 0          \* "no such id": undefined / null / NaN
NoDoc   == [docId |-> "", title |-> "", content |-> <<>>]
NoLocals == [tokens |-> <<>>, entities |-> <<>>, candidates |-> <<>>, extracted |-> <<>>,
             relationships |-> <<>>]
NoBatch == [active |-> FALSE, documents |-> <<>>, results |-> <<>>]
EntityIds == 1..NumEntities
RelTypes  == {"associate", "cooccur"}

-----------------------------------------------------------------------------
(***************************************************************************)
(* Helpers on sequences                                                    *)
(***************************************************************************)
Range(s) == {s[i] : i \in 1..Len(s)}

RECURSIVE SeqsUpTo(_, _)
SeqsUpTo(S, n) ==
    IF n = 0 THEN {<<>>}
    ELSE LET shorter == SeqsUpTo(S, n - 1)
         IN  shorter \cup {Append(s, x) : s \in {t \in shorter : Len(t) = n - 1}, x \in S}

-----------------------------------------------------------------------------
(***************************************************************************)
(* Storage reads used by SearchAPI                                         *)
(***************************************************************************)
\* dbManager.getRelationships({sourceEntityId}) / ({targetEntityId}):
\* the stored relationships matching every field the filter supplies.
getRelationships(filter) ==
    LET Matches(rel) ==
            /\ (filter.sourceEntityId # NoId => rel.sourceEntityId = filter.sourceEntityId)
            /\ (filter.targetEntityId # NoId => rel.targetEntityId = filter.targetEntityId)
    IN  SelectSeq(relationships, Matches)

\* dbManager.getEntity(entityId): the stored entity with that id, or null.
getEntity(entityId) ==
    LET hits == SelectSeq(entities, LAMBDA e : e.id = entityId)
    IN  IF hits = <<>> THEN [id |-> NoId] ELSE Head(hits)

-----------------------------------------------------------------------------
(***************************************************************************)
(* SearchAPI.findEntityPath                                                *)
(***************************************************************************)
\* `${rel.type}_reverse`
ReverseType(type) ==
    CASE type = "associate" -> "associate_reverse"
      [] type = "cooccur"   -> "cooccur_reverse"
      [] OTHER              -> "other_reverse"

IsReverseType(type) == type \in {"associate_reverse", "cooccur_reverse", "other_reverse"}

\* a shift() that reads the head and leaves it in the queue
ShiftKeepsHead(q) == q

\* queue.shift(): what is left of the queue once its head is taken
Shift(q) == Tail(q)

\* if (path.length >= maxDepth) continue
DepthReached(path, maxDepth) == Len(path) >= maxDepth

\* the body of `for (const rel of allRels)`: where the relationship leads
\* from entityId, and the path extended by it
NextHop(rel, entityId, path) ==
    IF rel.sourceEntityId = entityId
    THEN [nextEntityId |-> rel.targetEntityId, newPath |-> Append(path, rel)]
    ELSE [nextEntityId |-> rel.sourceEntityId,
          newPath |-> Append(path, [rel EXCEPT !.type = ReverseType(@)])]

\* if (!visited.has(nextEntityId)) { visited.add(...); queue.push(...) }
RECURSIVE Explore(_, _, _, _, _)
Explore(allRels, entityId, path, vis, q) ==
    IF allRels = <<>> THEN [visited |-> vis, queue |-> q]
    ELSE LET hop == NextHop(Head(allRels), entityId, path)
         IN  IF hop.nextEntityId \notin vis
             THEN Explore(Tail(allRels), entityId, path,
                          vis \cup {hop.nextEntityId},
                          Append(q, [entityId |-> hop.nextEntityId, path |-> hop.newPath]))
             ELSE Explore(Tail(allRels), entityId, path, vis, q)

\* const allRels = [...outgoingRels, ...incomingRels]
AllRels(entityId) ==
    getRelationships([sourceEntityId |-> entityId, targetEntityId |-> NoId])
    \o getRelationships([sourceEntityId |-> NoId, targetEntityId |-> entityId])

FindEntityPathCall(sourceEntityId, targetEntityId, maxDepth) ==
    /\ pc = "idle"
    /\ pc' = "path_loop"
    /\ args' = [sourceEntityId |-> sourceEntityId, targetEntityId |-> targetEntityId,
                maxDepth |-> maxDepth]
    /\ queue' = <<[entityId |-> sourceEntityId, path |-> <<>>]>>
    /\ visited' = {sourceEntityId}
    /\ UNCHANGED <<storageVars, pipeVars, variant, nodes, edges, stack, result>>

\* one iteration of `while (queue.length > 0)`
FindEntityPathIter ==
    /\ pc = "path_loop"
    /\ queue # <<>>
    /\ LET head == Head(queue)
           rest == Shift(queue)
       IN  IF head.entityId = args.targetEntityId
           THEN /\ result' = head.path
                /\ pc' = "done"
                /\ queue' = rest
                /\ UNCHANGED visited
           ELSE IF DepthReached(head.path, args.maxDepth)
           THEN /\ queue' = rest
                /\ UNCHANGED <<pc, visited, result>>
           ELSE IF variant = "adapter"
           THEN \* the adapter source returns [] where the relationships would be read
                /\ result' = <<>>
                /\ pc' = "done"
                /\ queue' = rest
                /\ UNCHANGED visited
           ELSE LET after == Explore(AllRels(head.entityId), head.entityId, head.path,
                                     visited, rest)
                IN  /\ queue' = after.queue
                    /\ visited' = after.visited
                    /\ UNCHANGED <<pc, result>>
    /\ UNCHANGED <<storageVars, pipeVars, variant, args, nodes, edges, stack>>

\* the queue ran empty: return []
FindEntityPathExit ==
    /\ pc = "path_loop"
    /\ queue = <<>>
    /\ result' = <<>>
    /\ pc' = "done"
    /\ UNCHANGED <<storageVars, pipeVars, variant, args, queue, visited, nodes, edges, stack>>

-----------------------------------------------------------------------------
(***************************************************************************)
(* SearchAPI.getEntityGraph / fetchEntityRelations.  The recursion is kept *)
(* as an explicit call stack; a frame is one activation of                 *)
(* fetchEntityRelations, the top of the stack is the last element.         *)
(***************************************************************************)
\* `${rel.sourceEntityId}-${rel.targetEntityId}-${rel.type}`
EdgeKey(rel) == <<rel.sourceEntityId, rel.targetEntityId, rel.type>>

\* Map.has / Map.set / Map.values on a Map kept as its entries in insertion order
MapHas(m, key) == \E i \in 1..Len(m) : m[i].key = key
MapSet(m, key, value) ==
    IF MapHas(m, key)
    THEN [i \in 1..Len(m) |-> IF m[i].key = key THEN [key |-> key, value |-> value] ELSE m[i]]
    ELSE Append(m, [key |-> key, value |-> value])
MapValues(m) == [i \in 1..Len(m) |-> m[i].value]

\* an edge list that takes every relationship it is given
AddEdgeUnchecked(edgeMap, rel) == Append(edgeMap, [key |-> EdgeKey(rel), value |-> rel])

\* if (!edges.has(edgeKey)) edges.set(edgeKey, rel)
AddEdge(edgeMap, rel) ==
    IF MapHas(edgeMap, EdgeKey(rel)) THEN edgeMap ELSE MapSet(edgeMap, EdgeKey(rel), rel)

\* `{} as any`, what the adapter source of getEntityGraph returns
EmptyObject == <<>>

\* An activation of fetchEntityRelations that is inside one of its two loops:
\* phase says which, rels is the list the loop runs over, i the next index.
Frame(entityId, currentDepth, phase, rels) ==
    [entityId |-> entityId, currentDepth |-> currentDepth, phase |-> phase,
     rels |-> rels, i |-> 1]

OutgoingRels(entityId) ==
    getRelationships([sourceEntityId |-> entityId, targetEntityId |-> NoId])
IncomingRels(entityId) ==
    getRelationships([sourceEntityId |-> NoId, targetEntityId |-> entityId])

\* A call fetchEntityRelations(entityId, currentDepth, ...) from its entry to
\* its first loop: the guard, visited.add, getEntity, nodes.set.  The result is
\* the stack with the new activation on top when the call got that far, and
\* the stack as it was when the call returned at once.
Enter(st, vis, nds, entityId, currentDepth, depth) ==
    IF currentDepth > depth \/ entityId \in vis
    THEN [stack |-> st, visited |-> vis, nodes |-> nds]
    ELSE IF variant = "adapter"
    THEN \* the adapter source only logs a warning after visited.add
         [stack |-> st, visited |-> vis \cup {entityId}, nodes |-> nds]
    ELSE LET entity == getEntity(entityId)
         IN  IF entity.id = NoId
             THEN [stack |-> st, visited |-> vis \cup {entityId}, nodes |-> nds]
             ELSE [stack |-> Append(st, Frame(entityId, currentDepth, "outgoing",
                                              OutgoingRels(entityId))),
                   visited |-> vis \cup {entityId},
                   nodes |-> MapSet(nds, entityId, entity)]

\* Control flow between loop iterations: a finished outgoing loop is followed
\* by the incoming loop when includeReverse is set, a finished activation
\* returns to its caller's loop.
RECURSIVE Settle(_, _)
Settle(st, includeReverse) ==
    IF st = <<>> THEN st
    ELSE LET top == st[Len(st)]
         IN  IF top.i <= Len(top.rels) THEN st
             ELSE IF top.phase = "outgoing" /\ includeReverse
             THEN Settle([st EXCEPT ![Len(st)] =
                            Frame(top.entityId, top.currentDepth, "incoming",
                                  IncomingRels(top.entityId))], includeReverse)
             ELSE Settle(SubSeq(st, 1, Len(st) - 1), includeReverse)

\* getEntityGraph up to the first relationship of the seed
GetEntityGraphCall(entityId, depth, includeReverse) ==
    /\ pc = "idle"
    /\ pc' = "graph_run"
    /\ args' = [entityId |-> entityId, depth |-> depth, includeReverse |-> includeReverse]
    /\ edges' = <<>>
    /\ LET entered == Enter(<<>>, {}, <<>>, entityId, 0, depth)
       IN  /\ stack' = Settle(entered.stack, includeReverse)
           /\ visited' = entered.visited
           /\ nodes' = entered.nodes
    /\ UNCHANGED <<storageVars, pipeVars, variant, queue, result>>

\* one iteration of `for (const rel of outgoingRels)` / `of incomingRels`:
\* the edge is recorded and, below the depth limit, the other endpoint entered
FetchEntityRelationsRel ==
    /\ pc = "graph_run"
    /\ stack # <<>>
    /\ LET top == stack[Len(stack)]
           rel == top.rels[top.i]
           other == IF top.phase = "outgoing" THEN rel.targetEntityId ELSE rel.sourceEntityId
           advanced == [stack EXCEPT ![Len(stack)].i = @ + 1]
           entered == IF top.currentDepth < args.depth
                      THEN Enter(advanced, visited, nodes, other, top.currentDepth + 1,
                                 args.depth)
                      ELSE [stack |-> advanced, visited |-> visited, nodes |-> nodes]
       IN  /\ edges' = AddEdge(edges, rel)
           /\ stack' = Settle(entered.stack, args.includeReverse)
           /\ visited' = entered.visited
           /\ nodes' = entered.nodes
    /\ UNCHANGED <<storageVars, pipeVars, variant, pc, args, queue, result>>

\* the outermost fetchEntityRelations has returned
GetEntityGraphReturn ==
    /\ pc = "graph_run"
    /\ stack = <<>>
    /\ result' = IF variant = "adapter" THEN EmptyObject
                  ELSE [nodes |-> MapValues(nodes), edges |-> MapValues(edges)]
    /\ pc' = "done"
    /\ UNCHANGED <<storageVars, pipeVars, variant, args, queue, visited, nodes, edges, stack>>

\* the arrays a caller reads from the returned object (absent in `{}`)
ResultNodes == IF "nodes" \in DOMAIN result THEN result.nodes ELSE <<>>
ResultEdges == IF "edges" \in DOMAIN result THEN result.edges ELSE <<>>

-----------------------------------------------------------------------------
(***************************************************************************)
(* Initial states of the graph-query specifications: a stored graph of     *)
(* NumEntities entities and at most MaxRels relationships.                 *)
(***************************************************************************)
StoredEntity(id) ==
    [id |-> id, name |-> "A", type |-> "person", docId |-> "d1",
     startPos |-> id, endPos |-> id + 1, source |-> "rule", confidence |-> 7]

StoredRelationship(id, edge) ==
    [id |-> id, sourceEntityId |-> edge[1], targetEntityId |-> edge[2], type |-> edge[3],
     docId |-> "d1", confidence |-> 8, source |-> "rule"]

InitGraphStore(types) ==
    /\ backend = "sqlite"
    /\ documents = <<[docId |-> "d1", title |-> "t", content |-> <<>>]>>
    /\ indexEntries = {}
    /\ entitySimilarity = <<>>
    /\ entityAliases = <<>>
    /\ entities = [i \in EntityIds |-> StoredEntity(i)]
    /\ nextEntityId = NumEntities + 1
    /\ \E es \in SeqsUpTo(EntityIds \X EntityIds \X types, MaxRels) :
          /\ relationships = [i \in 1..Len(es) |-> StoredRelationship(i, es[i])]
          /\ nextRelationshipId = Len(es) + 1

InitQuery ==
    /\ variant \in {"database", "adapter"}
    /\ pc = "idle"
    /\ args = [sourceEntityId |-> NoId, targetEntityId |-> NoId, maxDepth |-> 0]
    /\ queue = <<>>
    /\ visited = {}
    /\ nodes = <<>>
    /\ edges = <<>>
    /\ stack = <<>>
    /\ result = <<>>
    \* no document processing in a graph-query run
    /\ llmConfig = "none"
    /\ doc = NoDoc
    /\ locals = NoLocals
    /\ trace = <<>>
    /\ faults = {}
    /\ batch = NoBatch
    /\ calls = 0

InitPath == InitGraphStore({"associate"}) /\ InitQuery

\* Every relationship list over EntityIds is an initial state and ids are only
\* ever compared for equality, so a search from entity 1 stands for a search
\* from any entity.
NextPath ==
    \/ \E t \in EntityIds, d \in 0..MaxDepthArg : FindEntityPathCall(1, t, d)
    \/ FindEntityPathIter
    \/ FindEntityPathExit

SpecPath == InitPath /\ [][NextPath]_vars

\* the loop of a call that has started keeps running
FairSpecPath == SpecPath /\ WF_vars(FindEntityPathIter \/ FindEntityPathExit)

-----------------------------------------------------------------------------
(***************************************************************************)
(* Undirected hop distance in the stored graph, computed from the          *)
(* relationships alone (not from the queue of findEntityPath).             *)
(***************************************************************************)
Neighbours(x) ==
    {relationships[i].targetEntityId :
        i \in {j \in 1..Len(relationships) : relationships[j].sourceEntityId = x}}
    \cup
    {relationships[i].sourceEntityId :
        i \in {j \in 1..Len(relationships) : relationships[j].targetEntityId = x}}

RECURSIVE Ball(_, _)
Ball(s, k) ==
    IF k = 0 THEN {s}
    ELSE LET b == Ball(s, k - 1) IN b \cup UNION {Neighbours(x) : x \in b}

\* NumEntities + 1 stands for "not connected"
Distance(s, t) ==
    IF t \notin Ball(s, NumEntities) THEN NumEntities + 1
    ELSE CHOOSE k \in 0..NumEntities :
            /\ t \in Ball(s, k)
            /\ \A j \in 0..(k - 1) : t \notin Ball(s, j)

\* the entity a path step arrives at, and the one it leaves from
StepTo(rel)   == IF IsReverseType(rel.type) THEN rel.sourceEntityId ELSE rel.targetEntityId
StepFrom(rel) == IF IsReverseType(rel.type) THEN rel.targetEntityId ELSE rel.sourceEntityId

\* the entity ids along a path that starts at `from`
PathEntities(from, path) == <<from>> \o [i \in 1..Len(path) |-> StepTo(path[i])]

\* consecutive steps of the path join up, from `from` to `to`
PathConnects(from, to, path) ==
    LET ids == PathEntities(from, path)
    IN  /\ \A i \in 1..Len(path) : StepFrom(path[i]) = ids[i]
        /\ ids[Len(ids)] = to

NoRepeatedEntity(from, path) ==
    LET ids == PathEntities(from, path)
    IN  \A i, j \in 1..Len(ids) : i # j => ids[i] # ids[j]

HasSelfLoop == \E i \in 1..Len(relationships) :
                  relationships[i].sourceEntityId = relationships[i].targetEntityId
HasParallelEdges ==
    \E i, j \in 1..Len(relationships) :
        /\ i # j
        /\ relationships[i].sourceEntityId = relationships[j].sourceEntityId
        /\ relationships[i].targetEntityId = relationships[j].targetEntityId

\* C1: findEntityPath returns a path of exactly the shortest undirected hop
\* count when that distance is between 1 and maxDepth, and the empty sequence
\* when the entities are disconnected, farther apart than maxDepth, or equal.
C1_ShortestPathOrEmpty ==
    pc = "done" =>
        LET d == Distance(args.sourceEntityId, args.targetEntityId)
        IN  IF d >= 1 /\ d <= args.maxDepth
            THEN /\ Len(result) = d
                 /\ PathConnects(args.sourceEntityId, args.targetEntityId, result)
            ELSE result = <<>>

\* The same statement for the SearchAPI source that reads the relationships
\* (the one over DatabaseManager); it holds there.
ShortestPathOrEmpty_Database == variant = "database" => C1_ShortestPathOrEmpty

\* C2: on every stored graph (cycles, parallel edges and self-loops included)
\* a started findEntityPath reaches its return, and no entity id occurs twice
\* along the returned path.
C2_TerminatesWithSimplePath ==
    /\ [](pc = "done" => NoRepeatedEntity(args.sourceEntityId, result))
    /\ ((pc = "path_loop") ~> (pc = "done"))

\* a two-hop path was returned from a graph that also has a self-loop
C2_Witness ==
    /\ pc = "done"
    /\ variant = "database"
    /\ Len(result) = 2
    /\ HasSelfLoop

-----------------------------------------------------------------------------
MissingEntityId == NumEntities + 1

InitGraph == InitGraphStore({"associate"}) /\ InitQuery

\* As for NextPath, the seed 1 stands for any stored entity.
NextGraph ==
    \/ \E e \in {1, MissingEntityId}, d \in 0..MaxDepthArg, r \in BOOLEAN :
          GetEntityGraphCall(e, d, r)
    \/ FetchEntityRelationsRel
    \/ GetEntityGraphReturn

SpecGraph == InitGraph /\ [][NextGraph]_vars

\* the steps of a call that has started keep running
FairSpecGraph ==
    SpecGraph /\ WF_vars(FetchEntityRelationsRel \/ GetEntityGraphReturn)

HasTwoCycle ==
    \E i, j \in 1..Len(relationships) :
        /\ relationships[i].sourceEntityId # relationships[i].targetEntityId
        /\ relationships[j].sourceEntityId = relationships[i].targetEntityId
        /\ relationships[j].targetEntityId = relationships[i].sourceEntityId

Distinct(s) == \A i, j \in 1..Len(s) : i # j => s[i] # s[j]

\* C3: on any stored graph, cyclic ones included, for any depth and either
\* includeReverse, a started getEntityGraph reaches its return, and in what it
\* returns no entity id occurs twice in nodes and no (source,target,type) key
\* occurs twice in edges.
C3_TerminatesWithoutDuplicates ==
    /\ [](pc = "done" =>
            /\ Distinct([i \in 1..Len(ResultNodes) |-> ResultNodes[i].id])
            /\ Distinct([i \in 1..Len(ResultEdges) |-> EdgeKey(ResultEdges[i])]))
    /\ ((pc = "graph_run") ~> (pc = "done"))

\* a graph with the cycle A->B->A and a repeated edge key was traversed to depth 2
C3_Witness ==
    /\ pc = "done"
    /\ variant = "database"
    /\ HasTwoCycle
    /\ HasParallelEdges
    /\ args.depth = 2
    /\ Len(ResultNodes) >= 2
    /\ Len(ResultEdges) >= 2

\* C4: when the seed entity is stored, getEntityGraph(seed, {depth: 0}) returns
\* exactly one node, the seed, and no edge, whatever relationships it has.
C4_DepthZeroIsSeedOnly ==
    (pc = "done" /\ args.depth = 0 /\ args.entityId \in EntityIds) =>
        /\ Len(ResultNodes) = 1
        /\ ResultNodes[1].id = args.entityId
        /\ Len(ResultEdges) = 0


-----------------------------------------------------------------------------
(***************************************************************************)
(* Texts.  A text is a sequence of pieces; each piece is one maximal run   *)
(* of digits, one maximal run of CJK ideographs, or the sentence mark.     *)
(* The CJK pieces are written in pinyin: "yu" is U+4E0E, "xiangguan" is    *)
(* U+76F8 U+5173, "Beijingshi" is U+5317 U+4EAC U+5E02, "." is U+3002.     *)
(*   T1  12 yu 34 xiangguan .        ("12 is related to 34.")              *)
(*   T2  12 . Beijingshi .                                                 *)
(*   T3  12 yu 34 xiangguan . 34 .   (the name 34 twice, in two sentences) *)
(***************************************************************************)
EmptyText == <<>>
T1 == <<"12", "yu", "34", "xiangguan", ".">>
T2 == <<"12", ".", "Beijingshi", ".">>
T3 == T1 \o <<"34", ".">>
Document(docId, content) == [docId |-> docId, title |-> "t", content |-> content]
\* the documents handed to the processor: d1 in two versions, d2 in two
Documents ==
    {Document("d1", T1), Document("d1", T3), Document("d2", T2), Document("d2", EmptyText)}

\* String.length of a piece
CharLen(piece) ==
    CASE piece \in {"12", "34", "xiangguan"} -> 2
      [] piece = "Beijingshi" -> 3
      [] OTHER -> 1

\* offset of the i-th piece in the string
RECURSIVE StartOf(_, _)
StartOf(text, i) == IF i = 1 THEN 0 ELSE StartOf(text, i - 1) + CharLen(text[i - 1])

IsDigits(piece) == piece \in {"12", "34"}
IsHan(piece)    == piece \in {"yu", "xiangguan", "Beijingshi"}

\* Tokenizer: the stop words that occur in the texts
stopwords == {"yu"}

\* Tokenizer.tokenize: one token per run, stop words dropped
RECURSIVE TokenizeFrom(_, _)
TokenizeFrom(text, i) ==
    IF i > Len(text) THEN <<>>
    ELSE LET token == [text |-> text[i], start |-> StartOf(text, i),
                       end |-> StartOf(text, i) + CharLen(text[i])]
         IN  (IF text[i] \in stopwords THEN <<>> ELSE <<token>>) \o TokenizeFrom(text, i + 1)

tokenize(text) == TokenizeFrom(text, 1)

(***************************************************************************)
(* RequestUtil.post: what the LLM endpoint answers.  A reply is            *)
(*   "network_error"     fetch rejects                                     *)
(*   "http_error"        the status is not 2xx                             *)
(*   "body_not_json"     response.json() rejects                           *)
(*   "content_not_json"  the body is JSON, choices[0].message.content is   *)
(*                       not                                               *)
(*   "ok"                the content is the JSON array in `list`           *)
(***************************************************************************)
RuleEntityConfidence   == 7
RuleRelationConfidence == 8
CooccurConfidence      == 5
LLMConfidence          == 9

LLMConfigs == {"endpoint", "no_endpoint"}    \* LLMConfig.endpoint is optional

FailedReplies == {"network_error", "http_error", "body_not_json"}
Reply(kind, list) == [kind |-> kind, list |-> list]

EntityReplyLists ==
    { <<>>,
      << [name |-> "12", type |-> "number", start |-> 0, end |-> 2],
         [name |-> "34", type |-> "number", start |-> 3, end |-> 5] >> }

RelationReplyLists ==
    { <<>>,
      << [sourceEntityId |-> "1", targetEntityId |-> "2", type |-> "associate"] >>,
      << [sourceEntityId |-> "99", targetEntityId |-> "x", type |-> "associate"] >> }

RepliesOver(lists) ==
    {Reply(k, <<>>) : k \in FailedReplies \cup {"content_not_json"}}
        \cup {Reply("ok", l) : l \in lists}

\* RequestUtil.request: throws unless fetch resolves, the status is ok and the
\* body parses
RequestThrows(reply) == reply.kind \in FailedReplies

\* parseInt(s, 10); NaN is NoId
parseInt(s) ==
    CASE s = "1" -> 1
      [] s = "2" -> 2
      [] s = "99" -> 99
      [] OTHER -> NoId

Returned(value) == [threw |-> FALSE, value |-> value]
Thrown(message) == [threw |-> TRUE, value |-> <<>>, message |-> message]

(***************************************************************************)
(* EntityExtractor                                                         *)
(***************************************************************************)
\* entityRules, in the insertion order of the Map
EntityRuleTypes == <<"person", "location", "organization", "number", "time">>

\* does the rule of this type match the piece (as a whole run)?
RuleMatches(type, piece) ==
    CASE type = "person"   -> IsHan(piece) /\ CharLen(piece) >= 2 /\ CharLen(piece) <= 4
      [] type = "location" -> piece = "Beijingshi"
      [] type = "number"   -> IsDigits(piece)
      [] OTHER             -> FALSE

PositionKey(text, i) == <<StartOf(text, i), StartOf(text, i) + CharLen(text[i])>>

NewPosition(extractedPositions, key) == key \notin extractedPositions

\* EntityExtractor.extractByRules: rule types in order, matches in text order,
\* a span is taken by the first rule that matches it
RECURSIVE ExtractByRulesFrom(_, _, _, _, _)
ExtractByRulesFrom(text, docId, t, i, extractedPositions) ==
    IF t > Len(EntityRuleTypes) THEN <<>>
    ELSE IF i > Len(text) THEN ExtractByRulesFrom(text, docId, t + 1, 1, extractedPositions)
    ELSE IF RuleMatches(EntityRuleTypes[t], text[i])
            /\ NewPosition(extractedPositions, PositionKey(text, i))
    THEN << [id |-> NoId, name |-> text[i], type |-> EntityRuleTypes[t], docId |-> docId,
             startPos |-> PositionKey(text, i)[1], endPos |-> PositionKey(text, i)[2],
             source |-> "rule", confidence |-> RuleEntityConfidence] >>
         \o ExtractByRulesFrom(text, docId, t, i + 1,
                               extractedPositions \cup {PositionKey(text, i)})
    ELSE ExtractByRulesFrom(text, docId, t, i + 1, extractedPositions)

EntityExtractByRules(text, docId) == ExtractByRulesFrom(text, docId, 1, 1, {})

\* EntityExtractor.extractByLLM
EntityExtractByLLM(text, docId, config, reply) ==
    IF config # "endpoint" THEN Returned(<<>>)
    ELSE IF RequestThrows(reply) THEN Thrown(reply.kind)
    ELSE IF reply.kind = "content_not_json" THEN Returned(<<>>)
    ELSE Returned([k \in 1..Len(reply.list) |->
            [id |-> NoId, name |-> reply.list[k].name, type |-> reply.list[k].type,
             docId |-> docId, startPos |-> reply.list[k].start, endPos |-> reply.list[k].end,
             source |-> "llm", confidence |-> LLMConfidence]])

\* the mutant: a failed LLM pass counts as a pass that found nothing
NoFallback(llm, text, docId) == Returned(llm.value)
\* return llmEntities, or after the catch go on to the rules
LLMOrRules(llm, text, docId) ==
    IF ~llm.threw THEN Returned(llm.value)
    ELSE Returned(EntityExtractByRules(text, docId))

\* EntityExtractor.extract
EntityExtract(text, docId, config, reply) ==
    IF text = EmptyText THEN Returned(<<>>)
    ELSE IF config = "none" THEN Returned(EntityExtractByRules(text, docId))
    ELSE LLMOrRules(EntityExtractByLLM(text, docId, config, reply), text, docId)


(***************************************************************************)
(* RelationExtractor                                                       *)
(***************************************************************************)
\* RelationExtractor.buildEntityMap, read at a name: the entities of that
\* name, in list order
EntitiesNamed(ents, name) == SelectSeq(ents, LAMBDA e : e.name = name)

IsWord(piece) == piece \notin {".", "yu"}

\* the associate pattern (x)yu(y)xiangguan matches at piece i; the other
\* relation patterns need characters that no text here contains
AssociateMatchAt(text, i) ==
    /\ i + 3 <= Len(text)
    /\ IsWord(text[i]) /\ text[i + 1] = "yu"
    /\ IsWord(text[i + 2]) /\ text[i + 2] # "xiangguan" /\ text[i + 3] = "xiangguan"
    /\ (i = 1 \/ text[i - 1] = ".")

RuleRelationship(sourceEntity, targetEntity, docId, evidence) ==
    [sourceEntityId |-> sourceEntity.id, targetEntityId |-> targetEntity.id,
     type |-> "associate", docId |-> docId, confidence |-> RuleRelationConfidence,
     source |-> "rule", evidenceText |-> evidence]

\* the two nested loops over sourceEntities and targetEntities
RECURSIVE PairsFrom(_, _, _, _, _, _)
PairsFrom(sources, targets, a, b, docId, evidence) ==
    IF a > Len(sources) THEN <<>>
    ELSE IF b > Len(targets) THEN PairsFrom(sources, targets, a + 1, 1, docId, evidence)
    ELSE (IF sources[a].docId = docId /\ targets[b].docId = docId
          THEN <<RuleRelationship(sources[a], targets[b], docId, evidence)>>
          ELSE <<>>)
         \o PairsFrom(sources, targets, a, b + 1, docId, evidence)

\* RelationExtractor.extractByRules
RECURSIVE RelationRulesFrom(_, _, _, _)
RelationRulesFrom(ents, text, docId, i) ==
    IF i > Len(text) THEN <<>>
    ELSE (IF AssociateMatchAt(text, i)
          THEN PairsFrom(EntitiesNamed(ents, text[i]), EntitiesNamed(ents, text[i + 2]),
                         1, 1, docId, SubSeq(text, i, i + 3))
          ELSE <<>>)
         \o RelationRulesFrom(ents, text, docId, i + 1)

RelationExtractByRules(ents, text, docId) == RelationRulesFrom(ents, text, docId, 1)

\* text.split on the sentence mark
RECURSIVE Split(_, _)
Split(text, current) ==
    IF text = <<>> THEN <<current>>
    ELSE IF Head(text) = "." THEN <<current>> \o Split(Tail(text), <<>>)
    ELSE Split(Tail(text), Append(current, Head(text)))

\* sentence.includes(name)
Includes(sentence, name) == \E k \in 1..Len(sentence) : sentence[k] = name

CooccurRelationship(e1, e2, docId, sentence) ==
    [sourceEntityId |-> e1.id, targetEntityId |-> e2.id, type |-> "cooccur",
     docId |-> docId, confidence |-> CooccurConfidence, source |-> "cooccur",
     evidenceText |-> sentence]

\* the loops over i < j
RECURSIVE CooccurPairsFrom(_, _, _, _, _)
CooccurPairsFrom(se, i, j, docId, sentence) ==
    IF i > Len(se) - 1 THEN <<>>
    ELSE IF j > Len(se) THEN CooccurPairsFrom(se, i + 1, i + 2, docId, sentence)
    ELSE <<CooccurRelationship(se[i], se[j], docId, sentence)>>
         \o CooccurPairsFrom(se, i, j + 1, docId, sentence)

\* RelationExtractor.extractByCooccurrence
RECURSIVE CooccurFrom(_, _, _, _)
CooccurFrom(ents, sentences, docId, k) ==
    IF k > Len(sentences) THEN <<>>
    ELSE LET sentenceEntities ==
                 SelectSeq(ents, LAMBDA e : /\ e.docId = docId
                                            /\ Includes(sentences[k], e.name)
                                            /\ e.id # NoId)
         IN  (IF Len(sentenceEntities) > 1
              THEN CooccurPairsFrom(sentenceEntities, 1, 2, docId, sentences[k])
              ELSE <<>>)
             \o CooccurFrom(ents, sentences, docId, k + 1)

RelationExtractByCooccurrence(ents, text, docId) ==
    CooccurFrom(ents, Split(text, <<>>), docId, 1)

\* RelationExtractor.extractByLLM
RelationExtractByLLM(ents, text, docId, config, reply) ==
    IF config # "endpoint" THEN Returned(<<>>)
    ELSE IF RequestThrows(reply) THEN Thrown(reply.kind)
    ELSE IF reply.kind = "content_not_json" THEN Returned(<<>>)
    ELSE Returned([k \in 1..Len(reply.list) |->
            [sourceEntityId |-> parseInt(reply.list[k].sourceEntityId),
             targetEntityId |-> parseInt(reply.list[k].targetEntityId),
             type |-> reply.list[k].type, docId |-> docId, confidence |-> LLMConfidence,
             source |-> "llm", evidenceText |-> <<>>]])

\* RelationExtractor.mergeRelationships: a Map keyed by (source, target, type);
\* a later relationship replaces the value only when its confidence is higher
RECURSIVE MergeInto(_, _)
MergeInto(uniqueRelationships, rels) ==
    IF rels = <<>> THEN uniqueRelationships
    ELSE LET rel == Head(rels)
             key == EdgeKey(rel)
             replace == \/ ~MapHas(uniqueRelationships, key)
                        \/ \E k \in 1..Len(uniqueRelationships) :
                              /\ uniqueRelationships[k].key = key
                              /\ uniqueRelationships[k].value.confidence < rel.confidence
         IN  MergeInto(IF replace THEN MapSet(uniqueRelationships, key, rel)
                       ELSE uniqueRelationships,
                       Tail(rels))

\* the mutant: every candidate is returned
KeepAll(rels) == rels
mergeRelationships(rels) == MapValues(MergeInto(<<>>, rels))

\* what extract does with a failed LLM pass: the mutant lets it escape
LLMFailureEscapes(llm) == llm
LLMFailureCaught(llm) == IF llm.threw THEN Returned(<<>>) ELSE llm

\* if (this.llmConfig && this.requestUtil) try { extractByLLM } catch { }
RelationLLMPass(ents, text, docId, config, reply) ==
    IF config # "none"
    THEN LLMFailureCaught(RelationExtractByLLM(ents, text, docId, config, reply))
    ELSE Returned(<<>>)

\* [...ruleRelationships, ...cooccurrenceRelationships, ...llmRelationships]
RelationCandidates(ents, text, docId, llmRelationships) ==
    RelationExtractByRules(ents, text, docId)
        \o RelationExtractByCooccurrence(ents, text, docId)
        \o llmRelationships

\* RelationExtractor.extract
RelationExtract(ents, text, docId, config, reply) ==
    IF Len(ents) < 2 THEN Returned(<<>>)
    ELSE LET llm == RelationLLMPass(ents, text, docId, config, reply)
         IN  IF llm.threw THEN llm
             ELSE Returned(mergeRelationships(
                     RelationCandidates(ents, text, docId, llm.value)))


-----------------------------------------------------------------------------
(***************************************************************************)
(* Storage managers: the writes and reads processDocument makes.           *)
(***************************************************************************)
MaxCalls == 2         \* processDocument calls in a run

Backends == {"sqlite", "indexeddb"}

\* getDocument: the row of this docId, or null
GetDocument(docId) ==
    LET rows == SelectSeq(documents, LAMBDA row : row.docId = docId)
    IN  IF rows = <<>> THEN NoDoc ELSE rows[1]

\* the mutant: every save inserts a row
InsertDocumentRow(d) == Append(documents, d)
\* saveDocument: UPDATE the rows of this docId and INSERT when none changed
\* (DatabaseManager); put under the key path docId (IndexedDBManager)
SaveDocumentRows(d) ==
    IF \E k \in 1..Len(documents) : documents[k].docId = d.docId
    THEN [k \in 1..Len(documents) |-> IF documents[k].docId = d.docId THEN d ELSE documents[k]]
    ELSE Append(documents, d)

\* buildInvertedIndex: one entry per distinct term, its frequency and positions
IndexEntriesOf(docId, tokens) ==
    { [term |-> term, docId |-> docId,
       frequency |-> Len(SelectSeq(tokens, LAMBDA t : t.text = term)),
       positions |-> [k \in 1..Len(SelectSeq(tokens, LAMBDA t : t.text = term)) |->
                        SelectSeq(tokens, LAMBDA t : t.text = term)[k].start]]
      : term \in {tokens[k].text : k \in 1..Len(tokens)} }

\* buildInvertedIndex: nothing for an empty token list, else the document's old
\* entries are deleted and the new ones inserted
BuildInvertedIndexRows(docId, tokens) ==
    IF tokens = <<>> THEN indexEntries
    ELSE {e \in indexEntries : e.docId # docId} \cup IndexEntriesOf(docId, tokens)

\* DatabaseManager.saveEntities names (entity_name, doc_id, start_pos, end_pos)
\* as its ON CONFLICT target; the entities table declares no UNIQUE index over
\* these columns, so the statement is rejected when it is prepared
ConflictTargetIsUnique == FALSE

\* store.index("name").get(name): the row of that name with the lowest id
FirstNamed(rows, name) ==
    IF EntitiesNamed(rows, name) = <<>> THEN [id |-> NoId] ELSE EntitiesNamed(rows, name)[1]

SameSpan(existing, entity) ==
    /\ existing.id # NoId
    /\ existing.docId = entity.docId
    /\ existing.startPos = entity.startPos
    /\ existing.endPos = entity.endPos

\* store.add(row) into a store with keyPath id and a key generator: the row
\* keeps a key it brings, else it gets the next generated one
AddedKey(row, nextId) == IF row.id = NoId THEN nextId ELSE row.id

KeyAfter(row, nextId) ==
    IF row.id = NoId \/ row.id >= nextId THEN AddedKey(row, nextId) + 1 ELSE nextId

\* the rows of a store are kept in key order
InsertByKey(rows, row) ==
    SelectSeq(rows, LAMBDA r : r.id < row.id) \o <<row>>
        \o SelectSeq(rows, LAMBDA r : r.id > row.id)

\* IndexedDBManager.saveEntities: every lookup is queued before any write, so
\* each one reads the rows as they were (before); then, entity by entity, the
\* matching row is put again or a new row is added.  An add under a key that
\* is already stored fails, and the failed request aborts the transaction.
RECURSIVE IdbSaveEntities(_, _, _, _)
IdbSaveEntities(before, rows, nextId, ents) ==
    IF ents = <<>> THEN [rows |-> rows, nextId |-> nextId, failed |-> FALSE]
    ELSE LET entity == Head(ents)
             existing == FirstNamed(before, entity.name)
         IN  IF SameSpan(existing, entity)
             THEN IdbSaveEntities(before,
                      [k \in 1..Len(rows) |-> IF rows[k].id = existing.id
                                              THEN [entity EXCEPT !.id = existing.id]
                                              ELSE rows[k]],
                      nextId, Tail(ents))
             ELSE IF \E k \in 1..Len(rows) : rows[k].id = entity.id
             THEN [rows |-> rows, nextId |-> nextId, failed |-> TRUE]
             ELSE IdbSaveEntities(before,
                      InsertByKey(rows, [entity EXCEPT !.id = AddedKey(entity, nextId)]),
                      KeyAfter(entity, nextId), Tail(ents))

\* can this backend carry out saveEntities at all
SaveEntitiesRuns == backend = "indexeddb" \/ ConflictTargetIsUnique

\* getEntities(docId)
GetEntities(docId) == SelectSeq(entities, LAMBDA e : e.docId = docId)

StoredEntityIds == {entities[k].id : k \in 1..Len(entities)}

\* the relationships table: FOREIGN KEY on both endpoints and on doc_id, with
\* foreign_keys = ON; a NULL endpoint (a bound NaN) is not checked
ForeignKeysHold(rels) ==
    \A k \in 1..Len(rels) :
        /\ rels[k].sourceEntityId \in StoredEntityIds \cup {NoId}
        /\ rels[k].targetEntityId \in StoredEntityIds \cup {NoId}
        /\ rels[k].docId \in {documents[i].docId : i \in 1..Len(documents)}

\* can this backend carry out saveRelationships(rels); the IndexedDB store
\* adds whatever it is given
SaveRelationshipsRuns(rels) == backend = "indexeddb" \/ ForeignKeysHold(rels)

SaveRelationshipsRows(rels) ==
    relationships \o [k \in 1..Len(rels) |->
                         [id |-> nextRelationshipId + k - 1] @@ rels[k]]


-----------------------------------------------------------------------------
(***************************************************************************)
(* DocumentProcessor.  pc is the await the running processDocument has     *)
(* reached; a storage operation succeeds or fails (ok), the LLM endpoint   *)
(* answers with a reply.                                                   *)
(***************************************************************************)
\* no call is running
Ready == pc \in {"idle", "pd_returned", "pd_thrown", "pb_done"} /\ ~batch.active

\* DocumentProcessor.configureLLM, which configures both extractors
ConfigureLLM(config) ==
    /\ Ready
    /\ llmConfig = "none"
    /\ llmConfig' = config
    /\ UNCHANGED <<storageVars, queryVars, doc, locals, trace, faults, batch, calls>>

\* entry of processDocument(d)
Start(d) ==
    /\ doc' = d
    /\ locals' = NoLocals
    /\ trace' = <<>>
    /\ faults' = {}
    /\ calls' = calls + 1
    /\ pc' = "pd_saveDocument"

ProcessDocumentCall(d) ==
    /\ Ready
    /\ calls < MaxCalls
    /\ Start(d)
    /\ batch' = NoBatch
    /\ result' = <<>>
    /\ UNCHANGED <<storageVars, graphVars, llmConfig>>

\* catch (error) { throw error }
Throw(operation, message) ==
    /\ faults' = faults \cup {operation}
    /\ pc' = "pd_thrown"
    /\ result' = [status |-> "thrown", error |-> message]

\* 1. await this.dbManager.saveDocument(doc)
PdSaveDocument(ok) ==
    /\ pc = "pd_saveDocument"
    /\ trace' = Append(trace, "saveDocument")
    /\ IF ok
       THEN /\ documents' = SaveDocumentRows(doc)
            /\ pc' = "pd_tokenize"
            /\ UNCHANGED <<faults, result>>
       ELSE /\ Throw("saveDocument", "Failed to save document")
            /\ UNCHANGED documents
    /\ UNCHANGED <<backend, entities, relationships, nextEntityId, nextRelationshipId,
                   indexEntries, entitySimilarity, entityAliases,
                   graphVars, llmConfig, doc, locals, batch, calls>>

\* 2. tokenizeDocument: tokenize, then buildInvertedIndex
PdTokenize(ok) ==
    /\ pc = "pd_tokenize"
    /\ trace' = trace \o <<"tokenize", "buildInvertedIndex">>
    /\ LET tokens == tokenize(doc.content)
       IN  IF ok \/ tokens = <<>>
           THEN /\ indexEntries' = BuildInvertedIndexRows(doc.docId, tokens)
                /\ locals' = [locals EXCEPT !.tokens = tokens]
                /\ pc' = "pd_extractEntities"
                /\ UNCHANGED <<faults, result>>
           ELSE /\ Throw("buildInvertedIndex", "Failed to build inverted index")
                /\ UNCHANGED <<indexEntries, locals>>
    /\ UNCHANGED <<backend, documents, entities, relationships, nextEntityId,
                   nextRelationshipId, entitySimilarity, entityAliases,
                   graphVars, llmConfig, doc, batch, calls>>

\* which LLM failure a pass met, if it asked the endpoint at all
LLMFault(pass, asked, reply) ==
    IF ~asked \/ llmConfig # "endpoint" \/ reply.kind = "ok" THEN {}
    ELSE IF RequestThrows(reply) THEN {pass \o "_request"}
    ELSE {pass \o "_content"}

\* the mutant: relation extraction straight after entity extraction
WithoutReload(ents) == "pd_extractRelationships"
\* 4. if (entities.length > 0) saveEntities, getEntities
AfterEntityExtraction(ents) ==
    IF Len(ents) > 0 THEN "pd_saveEntities" ELSE "pd_extractRelationships"

\* 3. extractEntities: EntityExtractor.extract inside try / catch
PdExtractEntities(reply) ==
    /\ pc = "pd_extractEntities"
    /\ trace' = Append(trace, "extractEntities")
    /\ LET r == EntityExtract(doc.content, doc.docId, llmConfig, reply)
           ents == IF r.threw THEN <<>> ELSE r.value
       IN  /\ locals' = [locals EXCEPT !.entities = ents]
           /\ pc' = AfterEntityExtraction(ents)
    /\ faults' = faults \cup LLMFault("llm_entities", doc.content # EmptyText, reply)
    /\ UNCHANGED <<storageVars, graphVars, result, llmConfig, doc, batch, calls>>

\* 4a. await this.dbManager.saveEntities(entities)
PdSaveEntities(ok) ==
    /\ pc = "pd_saveEntities"
    /\ trace' = Append(trace, "saveEntities")
    /\ LET saved == IdbSaveEntities(entities, entities, nextEntityId, locals.entities)
       IN  IF ok /\ SaveEntitiesRuns /\ ~saved.failed
           THEN /\ entities' = saved.rows
                /\ nextEntityId' = saved.nextId
                /\ pc' = "pd_getEntities"
                /\ UNCHANGED <<faults, result>>
           ELSE /\ Throw("saveEntities", "Failed to save entity")
                /\ UNCHANGED <<entities, nextEntityId>>
    /\ UNCHANGED <<backend, documents, relationships, nextRelationshipId, indexEntries,
                   entitySimilarity, entityAliases,
                   graphVars, llmConfig, doc, locals, batch, calls>>

\* 4b. entities = await this.dbManager.getEntities(doc.docId); a failed read
\* rejects on IndexedDB and yields [] on SQLite
PdGetEntities(ok) ==
    /\ pc = "pd_getEntities"
    /\ trace' = Append(trace, "getEntities")
    /\ IF ok
       THEN /\ locals' = [locals EXCEPT !.entities = GetEntities(doc.docId)]
            /\ pc' = "pd_extractRelationships"
            /\ UNCHANGED <<faults, result>>
       ELSE IF backend = "sqlite"
       THEN /\ locals' = [locals EXCEPT !.entities = <<>>]
            /\ faults' = faults \cup {"getEntities"}
            /\ pc' = "pd_extractRelationships"
            /\ UNCHANGED result
       ELSE /\ Throw("getEntities", "Failed to get entities")
            /\ UNCHANGED locals
    /\ UNCHANGED <<storageVars, graphVars, llmConfig, doc, batch, calls>>

\* 5. extractRelationships: RelationExtractor.extract and saveRelationships
\* inside one try / catch that returns [], then the return of processDocument
PdExtractRelationships(reply, ok) ==
    /\ pc = "pd_extractRelationships"
    /\ LET r == RelationExtract(locals.entities, doc.content, doc.docId, llmConfig, reply)
           llm == RelationLLMPass(locals.entities, doc.content, doc.docId, llmConfig, reply)
           merged == IF Len(locals.entities) < 2 \/ llm.threw THEN <<>>
                     ELSE RelationCandidates(locals.entities, doc.content, doc.docId, llm.value)
           toSave == IF r.threw THEN <<>> ELSE r.value
           saved == Len(toSave) > 0 /\ ok /\ SaveRelationshipsRuns(toSave)
           returned == IF Len(toSave) > 0 /\ ~saved THEN <<>> ELSE toSave
       IN  /\ trace' = trace \o <<"extractRelationships">>
                             \o (IF Len(toSave) > 0 THEN <<"saveRelationships">> ELSE <<>>)
           /\ relationships' = IF saved THEN SaveRelationshipsRows(toSave) ELSE relationships
           /\ nextRelationshipId' = IF saved THEN nextRelationshipId + Len(toSave)
                                    ELSE nextRelationshipId
           /\ faults' = faults
                  \cup LLMFault("llm_relations", Len(locals.entities) >= 2, reply)
                  \cup (IF Len(toSave) > 0 /\ ~saved THEN {"saveRelationships"} ELSE {})
           /\ locals' = [locals EXCEPT !.candidates = merged, !.extracted = r,
                                     !.relationships = returned]
           /\ result' = [status |-> "returned", tokens |-> locals.tokens,
                         entities |-> locals.entities, relationships |-> returned]
    /\ pc' = "pd_returned"
    /\ UNCHANGED <<backend, documents, entities, nextEntityId, indexEntries, entitySimilarity, entityAliases,
                   graphVars, llmConfig, doc, batch, calls>>

(***************************************************************************)
(* DocumentProcessor.processBatch                                          *)
(***************************************************************************)
\* doc.id || '': a Document has docId, title and content
IdOrEmpty(d) == IF "id" \in DOMAIN d THEN d.id ELSE ""

ProcessBatchCall(docs) ==
    /\ Ready
    /\ calls + Len(docs) <= MaxCalls
    /\ batch' = [active |-> TRUE, documents |-> docs, results |-> <<>>]
    /\ pc' = "pb_loop"
    /\ result' = <<>>
    /\ UNCHANGED <<storageVars, graphVars, llmConfig, doc, locals, trace, faults, calls>>

\* for (const doc of documents): the next document, or the return
ProcessBatchNext ==
    /\ pc = "pb_loop"
    /\ IF Len(batch.results) < Len(batch.documents)
       THEN /\ Start(batch.documents[Len(batch.results) + 1])
            /\ UNCHANGED <<batch, result>>
       ELSE /\ pc' = "pb_done"
            /\ result' = batch.results
            /\ batch' = [batch EXCEPT !.active = FALSE]
            /\ UNCHANGED <<doc, locals, trace, faults, calls>>
    /\ UNCHANGED <<storageVars, graphVars, llmConfig>>

\* results.push after processDocument returned or threw
ProcessBatchCollect ==
    /\ batch.active
    /\ pc \in {"pd_returned", "pd_thrown"}
    /\ LET entry == IF pc = "pd_returned"
                    THEN [docId |-> IdOrEmpty(doc), tokens |-> result.tokens,
                          entities |-> result.entities,
                          relationships |-> result.relationships]
                    ELSE [docId |-> IdOrEmpty(doc), tokens |-> <<>>, entities |-> <<>>,
                          relationships |-> <<>>, error |-> result.error]
       IN  batch' = [batch EXCEPT !.results = Append(@, entry)]
    /\ pc' = "pb_loop"
    /\ UNCHANGED <<storageVars, graphVars, result, llmConfig, doc, locals, trace, faults, calls>>

Init ==
    /\ backend \in Backends
    /\ documents = <<>>
    /\ entities = <<>>
    /\ relationships = <<>>
    /\ nextEntityId = 1
    /\ nextRelationshipId = 1
    /\ indexEntries = {}
    /\ entitySimilarity = <<>>
    /\ entityAliases = <<>>
    /\ variant = "database"
    /\ pc = "idle"
    /\ args = [sourceEntityId |-> NoId, targetEntityId |-> NoId, maxDepth |-> 0]
    /\ queue = <<>>
    /\ visited = {}
    /\ nodes = <<>>
    /\ edges = <<>>
    /\ stack = <<>>
    /\ result = <<>>
    /\ llmConfig = "none"
    /\ doc = NoDoc
    /\ locals = NoLocals
    /\ trace = <<>>
    /\ faults = {}
    /\ batch = NoBatch
    /\ calls = 0

Next ==
    \/ \E config \in LLMConfigs : ConfigureLLM(config)
    \/ \E d \in Documents : ProcessDocumentCall(d)
    \/ \E ok \in BOOLEAN : PdSaveDocument(ok)
    \/ \E ok \in BOOLEAN : PdTokenize(ok)
    \/ \E reply \in RepliesOver(EntityReplyLists) : PdExtractEntities(reply)
    \/ \E ok \in BOOLEAN : PdSaveEntities(ok)
    \/ \E ok \in BOOLEAN : PdGetEntities(ok)
    \/ \E reply \in RepliesOver(RelationReplyLists), ok \in BOOLEAN :
          PdExtractRelationships(reply, ok)
    \/ \E docs \in SeqsUpTo(Documents, MaxCalls) : ProcessBatchCall(docs)
    \/ ProcessBatchNext
    \/ ProcessBatchCollect

Spec == Init /\ [][Next]_vars


-----------------------------------------------------------------------------
(***************************************************************************)
(* Properties of the document pipeline                                     *)
(***************************************************************************)
Last(seq) == seq[Len(seq)]
IsPrefix(p, q) == Len(p) <= Len(q) /\ SubSeq(q, 1, Len(p)) = p

\* C5: every stored relationship has a source and a target that are ids of
\* stored entities (candidates with an id-less or unknown endpoint are never
\* stored), after any sequence of processDocument calls.
C5_StoredEndpointsAreStoredEntities ==
    \A k \in 1..Len(relationships) :
        /\ relationships[k].sourceEntityId \in StoredEntityIds
        /\ relationships[k].targetEntityId \in StoredEntityIds

\* the order of the steps of one run, given whether entities and whether
\* relationships were extracted
StepOrder(someEntities, someRelationships) ==
    <<"saveDocument", "tokenize", "buildInvertedIndex", "extractEntities">>
        \o (IF someEntities THEN <<"saveEntities", "getEntities">> ELSE <<>>)
        \o <<"extractRelationships">>
        \o (IF someRelationships THEN <<"saveRelationships">> ELSE <<>>)

InProcessDocument ==
    pc \in {"pd_saveDocument", "pd_tokenize", "pd_extractEntities", "pd_saveEntities",
            "pd_getEntities", "pd_extractRelationships", "pd_returned", "pd_thrown"}

\* C6: the steps of a processDocument run occur in the order saveDocument,
\* tokenize, buildInvertedIndex, entity extraction, saveEntities and
\* getEntities exactly when entities were extracted, relation extraction,
\* saveRelationships exactly when relationships were extracted; and relation
\* extraction only ever receives entities reloaded from storage, each with a
\* storage-assigned id.
C6_StepOrderAndReload ==
    /\ InProcessDocument =>
          \E e \in BOOLEAN, r \in BOOLEAN : IsPrefix(trace, StepOrder(e, r))
    /\ pc = "pd_saveEntities" => /\ Last(trace) = "extractEntities"
                                 /\ Len(locals.entities) > 0
    /\ pc = "pd_extractRelationships" =>
          /\ Last(trace) = "extractEntities" => locals.entities = <<>>
          /\ \A k \in 1..Len(locals.entities) :
                /\ locals.entities[k].id # NoId
                /\ locals.entities[k] \in Range(entities)
                /\ locals.entities[k].docId = doc.docId
    /\ pc = "pd_returned" =>
          /\ trace = StepOrder(Len(result.entities) > 0, Len(locals.extracted.value) > 0)
          /\ \A k \in 1..Len(result.entities) : result.entities[k].id \in StoredEntityIds

\* a run that took all eight steps and returned relationships
C6_Witness ==
    /\ pc = "pd_returned"
    /\ trace = StepOrder(TRUE, TRUE)
    /\ Len(result.relationships) > 0
    /\ Len(result.entities) > 1

\* C7: a processDocument call in which saveDocument, saveEntities or
\* saveRelationships failed never returns a result; it throws.
C7_FailedWriteNeverReturns ==
    pc = "pd_returned" =>
        faults \cap {"saveDocument", "saveEntities", "saveRelationships"} = {}

\* the state right after EntityExtractor.extract returned
AfterEntityExtract ==
    /\ pc \in {"pd_saveEntities", "pd_extractRelationships"}
    /\ Last(trace) = "extractEntities"

Candidates ==
    RelationExtractByRules(locals.entities, doc.content, doc.docId)
        \o RelationExtractByCooccurrence(locals.entities, doc.content, doc.docId)

MaxConfidence(cands, key) ==
    CHOOSE c \in {cands[k].confidence : k \in {j \in 1..Len(cands) : EdgeKey(cands[j]) = key}} :
        \A k \in 1..Len(cands) : EdgeKey(cands[k]) = key => cands[k].confidence <= c

\* out is cands with one relationship per (source, target, type), the one of
\* highest confidence
Deduplicated(out, cands) ==
    /\ \A i, j \in 1..Len(out) : i # j => EdgeKey(out[i]) # EdgeKey(out[j])
    /\ {EdgeKey(out[i]) : i \in 1..Len(out)} = {EdgeKey(cands[k]) : k \in 1..Len(cands)}
    /\ \A i \in 1..Len(out) :
          /\ out[i] \in Range(cands)
          /\ out[i].confidence = MaxConfidence(cands, EdgeKey(out[i]))

\* C9: an LLM failure during entity or relation extraction never makes
\* processDocument throw (a call throws only when a storage operation
\* failed), and with a failing LLM RelationExtractor.extract still returns
\* the deduplicated rule and co-occurrence relationships.
C9_LLMFailureIsNotFatal ==
    /\ pc = "pd_thrown" =>
          faults \cap {"saveDocument", "buildInvertedIndex", "saveEntities", "getEntities"} # {}
    /\ (pc = "pd_returned"
          /\ faults \cap {"llm_relations_request", "llm_relations_content"} # {}) =>
          /\ ~locals.extracted.threw
          /\ Deduplicated(locals.extracted.value, Candidates)

\* the relation LLM request failed, both rule passes found relationships and
\* the merge dropped a duplicate
C9_Witness ==
    /\ pc = "pd_returned"
    /\ "llm_relations_request" \in faults
    /\ Len(locals.extracted.value) > 0
    /\ Len(locals.extracted.value) < Len(Candidates)
    /\ \E k \in 1..Len(Candidates) : Candidates[k].source = "rule"

\* C10: processBatch returns one result per document, in input order; the
\* entry of a document whose processDocument threw carries that document's
\* docId, empty tokens, entities and relationships and the error message, and
\* the later documents are still processed.
C10_BatchEntriesCarryDocId ==
    pc = "pb_done" =>
        /\ Len(result) = Len(batch.documents)
        /\ \A i \in 1..Len(result) :
              /\ result[i].docId = batch.documents[i].docId
              /\ "error" \in DOMAIN result[i] =>
                    /\ result[i].tokens = <<>>
                    /\ result[i].entities = <<>>
                    /\ result[i].relationships = <<>>
                    /\ result[i].error # ""

\* what does hold of processBatch: one entry per document, a failed one with
\* empty lists and the message, and every document of the batch was run
BatchEntriesPerDocument ==
    pc = "pb_done" =>
        /\ Len(result) = Len(batch.documents)
        /\ \A i \in 1..Len(result) :
              "error" \in DOMAIN result[i] =>
                    /\ result[i].tokens = <<>>
                    /\ result[i].entities = <<>>
                    /\ result[i].relationships = <<>>
                    /\ result[i].error # ""

\* C11: the list RelationExtractor.extract returns holds at most one
\* relationship per (sourceEntityId, targetEntityId, type), and for each key
\* the one returned has the highest confidence among the candidates of the
\* rule, co-occurrence and LLM passes together.
C11_OnePerKeyMaxConfidence ==
    (pc = "pd_returned" /\ ~locals.extracted.threw) =>
        Deduplicated(locals.extracted.value, locals.candidates)

\* an LLM relationship and a rule relationship met on one key and the LLM
\* relationship, of higher confidence, was returned
C11_Witness ==
    /\ pc = "pd_returned"
    /\ ~locals.extracted.threw
    /\ \E i, j \in 1..Len(locals.candidates) :
          /\ EdgeKey(locals.candidates[i]) = EdgeKey(locals.candidates[j])
          /\ locals.candidates[i].source = "rule"
          /\ locals.candidates[j].source = "llm"
          /\ locals.candidates[j] \in Range(locals.extracted.value)
          /\ locals.candidates[i] \notin Range(locals.extracted.value)


\* `${entity.docId}-${entity.startPos}-${entity.endPos}-${entity.name}`
EntityKey(entity) == <<entity.docId, entity.startPos, entity.endPos, entity.name>>

\* C12: of the entities with one (docId, startPos, endPos, name) that reach
\* storage through extraction and saveEntities, in one call or over repeated
\* processing of a document, storage holds exactly one (the one of highest
\* confidence): no two stored entities share a key.
C12_OneStoredEntityPerKey ==
    \A i, j \in 1..Len(entities) :
        EntityKey(entities[i]) = EntityKey(entities[j]) => i = j

-----------------------------------------------------------------------------
(***************************************************************************)
(* The storage interface called directly (DatabaseManagerAdapter over      *)
(* DatabaseManager or IndexedDBManager).  trace is the list of the calls   *)
(* made so far, result the value of the last one, pc how it ended.         *)
(***************************************************************************)
MaxStoreCalls == 3    \* storage calls in a run

DocIds == {"d1", "d2"}

\* the documents handed to saveDocument
StoreDocuments ==
    {[docId |-> d, title |-> t, content |-> T1] : d \in DocIds, t \in {"t", "u"}}

StoreReady == pc \in {"idle", "st_returned", "st_thrown"} /\ calls < MaxStoreCalls

\* a call is made: it is logged, and nothing outside the storage changes
StoreCall(call) ==
    /\ StoreReady
    /\ trace' = Append(trace, call)
    /\ calls' = calls + 1
    /\ UNCHANGED <<backend, graphVars, llmConfig, doc, locals, faults, batch>>

LastCall == trace[Len(trace)]

\* adapter.saveDocument(d)
StSaveDocument(d) ==
    /\ StoreCall([op |-> "saveDocument", doc |-> d])
    /\ documents' = SaveDocumentRows(d)
    /\ pc' = "st_returned"
    /\ result' = <<>>
    /\ UNCHANGED <<entities, relationships, nextEntityId, nextRelationshipId,
                   indexEntries, entitySimilarity, entityAliases>>

\* adapter.getDocument(docId)
StGetDocument(docId) ==
    /\ StoreCall([op |-> "getDocument", docId |-> docId])
    /\ pc' = "st_returned"
    /\ result' = GetDocument(docId)
    /\ UNCHANGED <<documents, entities, relationships, nextEntityId, nextRelationshipId,
                   indexEntries, entitySimilarity, entityAliases>>

\* ids of the stored entities of a document
EntityIdsOf(docId) == {entities[k].id : k \in {j \in 1..Len(entities) : entities[j].docId = docId}}

\* DatabaseManager.deleteDocument: DELETE FROM documents, and what ON DELETE
\* CASCADE removes with the row; nothing when there is no such row
CascadeDelete(docId) ==
    LET found == \E k \in 1..Len(documents) : documents[k].docId = docId
        gone == IF found THEN EntityIdsOf(docId) ELSE {}
        owned(row) == found /\ row.docId = docId
    IN  [documents |-> SelectSeq(documents, LAMBDA row : row.docId # docId),
         entities |-> SelectSeq(entities, LAMBDA e : ~owned(e)),
         relationships |-> SelectSeq(relationships, LAMBDA r :
                               /\ ~owned(r)
                               /\ r.sourceEntityId \notin gone
                               /\ r.targetEntityId \notin gone),
         indexEntries |-> {e \in indexEntries : ~owned(e)},
         entitySimilarity |-> SelectSeq(entitySimilarity, LAMBDA s :
                                  s.entityId1 \notin gone /\ s.entityId2 \notin gone)]

\* IndexedDBManager.deleteDocument: store.delete(docId) on the documents store
DeleteDocumentRow(docId) ==
    [documents |-> SelectSeq(documents, LAMBDA row : row.docId # docId),
     entities |-> entities,
     relationships |-> relationships,
     indexEntries |-> indexEntries,
     entitySimilarity |-> entitySimilarity]

\* adapter.deleteDocument(docId)
StDeleteDocument(docId) ==
    /\ StoreCall([op |-> "deleteDocument", docId |-> docId])
    /\ LET after == IF backend = "sqlite" THEN CascadeDelete(docId)
                    ELSE DeleteDocumentRow(docId)
       IN  /\ documents' = after.documents
           /\ entities' = after.entities
           /\ relationships' = after.relationships
           /\ indexEntries' = after.indexEntries
           /\ entitySimilarity' = after.entitySimilarity
    /\ pc' = "st_returned"
    /\ result' = <<>>
    \* no alias row is stored when documents are deleted through this interface
    /\ UNCHANGED <<nextEntityId, nextRelationshipId, entityAliases>>

\* adapter.saveEntities(ents); the lists handed to it are extractor output,
\* or the rows of d1 as getEntities returned them (they carry their ids)
StoreEntityLists ==
    {<<>>, EntityExtractByRules(T1, "d1"), EntityExtractByRules(T3, "d1"),
     EntityExtractByRules(T2, "d2")}

StSaveEntities(ents) ==
    /\ StoreCall([op |-> "saveEntities", entities |-> ents])
    /\ LET saved == IdbSaveEntities(entities, entities, nextEntityId, ents)
           threw == ents # <<>> /\ (~SaveEntitiesRuns \/ saved.failed)
       IN  /\ entities' = IF threw THEN entities ELSE saved.rows
           /\ nextEntityId' = IF threw THEN nextEntityId ELSE saved.nextId
           /\ pc' = IF threw THEN "st_thrown" ELSE "st_returned"
    /\ result' = <<>>
    /\ UNCHANGED <<documents, relationships, nextRelationshipId, indexEntries,
                   entitySimilarity, entityAliases>>

\* getEntities(docId, entityType); "" is an argument left out.  DatabaseManager
\* joins the conditions with AND; IndexedDBManager reads the docId index when
\* docId is given and filters by type only when docId is not
getEntities(docId, entityType) ==
    IF backend = "sqlite"
    THEN SelectSeq(entities, LAMBDA e : /\ (docId # "" => e.docId = docId)
                                        /\ (entityType # "" => e.type = entityType))
    ELSE IF docId # "" THEN SelectSeq(entities, LAMBDA e : e.docId = docId)
    ELSE IF entityType # "" THEN SelectSeq(entities, LAMBDA e : e.type = entityType)
    ELSE entities

EntityTypeArgs == {"", "number", "person"}

\* adapter.getEntities(docId, entityType)
StGetEntities(docId, entityType) ==
    /\ StoreCall([op |-> "getEntities", docId |-> docId, entityType |-> entityType])
    /\ pc' = "st_returned"
    /\ result' = getEntities(docId, entityType)
    /\ UNCHANGED <<documents, entities, relationships, nextEntityId, nextRelationshipId,
                   indexEntries, entitySimilarity, entityAliases>>

\* a Relationship.id that is a number and not a valid key
NaN == -1

StoreRelationship(s, t) == RuleRelationship([id |-> s], [id |-> t], "d1", <<>>)
WithId(rel, id) == [id |-> id] @@ rel

\* the lists handed to saveRelationships: extractor output (no id), and rows
\* that bring an id
StoreRelationshipLists ==
    {<<>>,
     <<StoreRelationship(1, 2)>>,
     <<StoreRelationship(NoId, NoId)>>,
     <<StoreRelationship(NoId, NoId), StoreRelationship(1, 2)>>,
     <<StoreRelationship(1, 2), WithId(StoreRelationship(2, 1), 1)>>,
     <<StoreRelationship(1, 2), WithId(StoreRelationship(2, 1), NaN)>>}

KeyOf(row) == IF "id" \in DOMAIN row THEN row.id ELSE NoId

\* relationships.forEach(rel => store.add(rel)): add throws for a value whose
\* key is not valid, which ends the loop; the adds before it stay queued
RECURSIVE QueuedAdds(_)
QueuedAdds(rels) ==
    IF rels = <<>> \/ KeyOf(Head(rels)) = NaN THEN <<>>
    ELSE <<Head(rels)>> \o QueuedAdds(Tail(rels))

\* the queued adds are carried out in order; one under a stored key fails
RECURSIVE IdbAddRelationships(_, _, _)
IdbAddRelationships(rows, nextId, rels) ==
    IF rels = <<>> THEN [rows |-> rows, nextId |-> nextId, failed |-> FALSE]
    ELSE LET row == [id |-> KeyOf(Head(rels))] @@ Head(rels)
         IN  IF \E k \in 1..Len(rows) : rows[k].id = row.id
             THEN [rows |-> rows, nextId |-> nextId, failed |-> TRUE]
             ELSE IdbAddRelationships(
                      InsertByKey(rows, [row EXCEPT !.id = AddedKey(row, nextId)]),
                      KeyAfter(row, nextId), Tail(rels))

\* IndexedDBManager.saveRelationships: a failed request aborts the
\* transaction; an exception thrown by add rejects the promise and leaves the
\* transaction to commit what was queued
IdbSaveRelationships(rels) ==
    LET queued == QueuedAdds(rels)
        added == IdbAddRelationships(relationships, nextRelationshipId, queued)
    IN  [rows |-> IF added.failed THEN relationships ELSE added.rows,
         nextId |-> IF added.failed THEN nextRelationshipId ELSE added.nextId,
         threw |-> added.failed \/ Len(queued) < Len(rels)]

\* DatabaseManager.saveRelationships: BEGIN, the INSERTs, COMMIT; ROLLBACK and
\* rethrow when one fails
SqlSaveRelationships(rels) ==
    IF ForeignKeysHold(rels)
    THEN [rows |-> SaveRelationshipsRows(rels),
          nextId |-> nextRelationshipId + Len(rels), threw |-> FALSE]
    ELSE [rows |-> relationships, nextId |-> nextRelationshipId, threw |-> TRUE]

\* adapter.saveRelationships(rels)
StSaveRelationships(rels) ==
    /\ StoreCall([op |-> "saveRelationships", relationships |-> rels])
    /\ LET saved == IF rels = <<>>
                    THEN [rows |-> relationships, nextId |-> nextRelationshipId,
                          threw |-> FALSE]
                    ELSE IF backend = "sqlite" THEN SqlSaveRelationships(rels)
                    ELSE IdbSaveRelationships(rels)
       IN  /\ relationships' = saved.rows
           /\ nextRelationshipId' = saved.nextId
           /\ pc' = IF saved.threw THEN "st_thrown" ELSE "st_returned"
    /\ result' = <<>>
    /\ UNCHANGED <<documents, entities, nextEntityId, indexEntries, entitySimilarity, entityAliases>>

\* the token lists handed to buildInvertedIndex
StoreTokenLists == {<<>>, tokenize(T2), tokenize(T3)}

\* index_entries.doc_id REFERENCES documents(doc_id), with foreign_keys = ON
IndexForeignKeyHolds(docId) ==
    backend = "indexeddb" \/ \E k \in 1..Len(documents) : documents[k].docId = docId

\* adapter.buildInvertedIndex(docId, tokens)
StBuildInvertedIndex(docId, tokens) ==
    /\ StoreCall([op |-> "buildInvertedIndex", docId |-> docId, tokens |-> tokens])
    /\ LET threw == tokens # <<>> /\ ~IndexForeignKeyHolds(docId)
       IN  /\ indexEntries' = IF threw THEN indexEntries
                              ELSE BuildInvertedIndexRows(docId, tokens)
           /\ pc' = IF threw THEN "st_thrown" ELSE "st_returned"
    /\ result' = <<>>
    /\ UNCHANGED <<documents, entities, relationships, nextEntityId, nextRelationshipId,
                   entitySimilarity, entityAliases>>

\* const [minId, maxId] = entityId1 < entityId2 ? ... : ...
SimilarityRecord(entityId1, entityId2, score, method) ==
    [entityId1 |-> IF entityId1 < entityId2 THEN entityId1 ELSE entityId2,
     entityId2 |-> IF entityId1 < entityId2 THEN entityId2 ELSE entityId1,
     similarityScore |-> score, calculationMethod |-> method]

SamePair(a, b) == a.entityId1 = b.entityId1 /\ a.entityId2 = b.entityId2

\* DatabaseManager: INSERT OR REPLACE under UNIQUE(entity_id1, entity_id2)
InsertOrReplace(record) ==
    Append(SelectSeq(entitySimilarity, LAMBDA s : ~SamePair(s, record)), record)

\* IndexedDBManager: store.put of a record without id into a store with
\* keyPath id and a key generator
PutSimilarity(record) == Append(entitySimilarity, record)

\* entity_similarity.entity_id1 / entity_id2 REFERENCES entities(entity_id)
SimilarityForeignKeysHold(record) ==
    backend = "indexeddb" \/ {record.entityId1, record.entityId2} \subseteq StoredEntityIds

SimilarityScores == {5, 9}

\* adapter.addEntitySimilarity(entityId1, entityId2, score, method)
StAddEntitySimilarity(entityId1, entityId2, score, method) ==
    /\ StoreCall([op |-> "addEntitySimilarity", entityId1 |-> entityId1,
                  entityId2 |-> entityId2, score |-> score, method |-> method])
    /\ LET record == SimilarityRecord(entityId1, entityId2, score, method)
       IN  IF SimilarityForeignKeysHold(record)
           THEN /\ entitySimilarity' = IF backend = "sqlite" THEN InsertOrReplace(record)
                                       ELSE PutSimilarity(record)
                /\ pc' = "st_returned"
           ELSE /\ pc' = "st_thrown"
                /\ UNCHANGED entitySimilarity
    /\ result' = <<>>
    /\ UNCHANGED <<documents, entities, relationships, nextEntityId, nextRelationshipId,
                   indexEntries, entityAliases>>

NextStore ==
    \/ \E d \in StoreDocuments : StSaveDocument(d)
    \/ \E docId \in DocIds : StGetDocument(docId)
    \/ \E docId \in DocIds : StDeleteDocument(docId)
    \/ \E ents \in StoreEntityLists \cup {GetEntities("d1")} : StSaveEntities(ents)
    \/ \E docId \in DocIds \cup {""}, entityType \in EntityTypeArgs :
           StGetEntities(docId, entityType)
    \/ \E rels \in StoreRelationshipLists : StSaveRelationships(rels)
    \/ \E docId \in DocIds, tokens \in StoreTokenLists : StBuildInvertedIndex(docId, tokens)
    \/ \E entityId1 \in 1..2, entityId2 \in 1..2, score \in SimilarityScores :
           StAddEntitySimilarity(entityId1, entityId2, score, "fuzzy_match")

SpecStore == Init /\ [][NextStore]_vars

\* is call k a saveDocument / deleteDocument of this docId
WritesDocument(k, docId) ==
    \/ trace[k].op = "saveDocument" /\ trace[k].doc.docId = docId
    \/ trace[k].op = "deleteDocument" /\ trace[k].docId = docId

C14_DeleteRemovesOwnedRows ==
    (pc = "st_returned" /\ LastCall.op = "deleteDocument") =>
        /\ \A k \in 1..Len(entities) : entities[k].docId # LastCall.docId
        /\ \A k \in 1..Len(relationships) : relationships[k].docId # LastCall.docId
        /\ \A e \in indexEntries : e.docId # LastCall.docId
        /\ getEntities(LastCall.docId, "") = <<>>

\* the starts of the tokens with this text, in list order
StartsOf(tokens, term) ==
    LET same == SelectSeq(tokens, LAMBDA t : t.text = term)
    IN  [k \in 1..Len(same) |-> same[k].start]

\* C15: once buildInvertedIndex(docId, tokens) has returned, the index entries
\* of docId are exactly one per distinct token text, with the number and the
\* starts of the tokens of that text; no entry of an earlier token list of
\* docId is left, the empty list included.
C15_IndexMatchesTokens ==
    (pc = "st_returned" /\ LastCall.op = "buildInvertedIndex") =>
        LET own == {e \in indexEntries : e.docId = LastCall.docId}
            tokens == LastCall.tokens
        IN  /\ \A e \in own :
                   /\ \E k \in 1..Len(tokens) : tokens[k].text = e.term
                   /\ e.positions = StartsOf(tokens, e.term)
                   /\ e.frequency = Len(e.positions)
            /\ \A k \in 1..Len(tokens) :
                   Cardinality({e \in own : e.term = tokens[k].text}) = 1

\* C16: a saveEntities, saveRelationships or buildInvertedIndex call that ends
\* with an error leaves every stored table exactly as it was before the call.
C16_FailedWriteIsRolledBack ==
    [][(/\ pc' = "st_thrown"
        /\ trace'[Len(trace')].op \in {"saveEntities", "saveRelationships",
                                       "buildInvertedIndex"})
       => UNCHANGED <<documents, entities, relationships, indexEntries, entitySimilarity>>]_vars

\* C17: whatever addEntitySimilarity calls were made, in either argument order,
\* every stored similarity record has entityId1 < entityId2 and no two records
\* are for the same pair, on either manager.
C17_OrderedUniqueSimilarity ==
    /\ \A i \in 1..Len(entitySimilarity) :
           entitySimilarity[i].entityId1 < entitySimilarity[i].entityId2
    /\ \A i, j \in 1..Len(entitySimilarity) :
           SamePair(entitySimilarity[i], entitySimilarity[j]) => i = j

\* C18: getEntities(docId, entityType) returns exactly the stored entities
\* that match every argument given: both when both are given, the one given
\* when one is, all entities when none is; on either manager.
C18_GetEntitiesFiltersOnBoth ==
    (pc = "st_returned" /\ LastCall.op = "getEntities") =>
        result = SelectSeq(entities, LAMBDA e :
                     /\ (LastCall.docId # "" => e.docId = LastCall.docId)
                     /\ (LastCall.entityType # "" => e.type = LastCall.entityType))

-----------------------------------------------------------------------------
(***************************************************************************)
(* Tokenizer, character by character.  A text is a sequence of characters, *)
(* a word a sequence of characters, a position a 0-based index as in       *)
(* JavaScript.  "zh" and "de" stand for two Han characters, "de" being one *)
(* of the built-in stop words.                                             *)
(***************************************************************************)
MaxTextLen == 4       \* characters in a text

HanChars   == {"zh", "de"}
Letters    == {"a", "A"}
DigitChars == {"1"}
Chars      == HanChars \cup Letters \cup DigitChars \cup {".", " "}
Texts      == SeqsUpTo(Chars, MaxTextLen)

\* the stop word sets tried: the built-in ones, and an English word added
StopwordSets == {{<<"de">>}, {<<"de">>, <<"a">>}}

\* the custom dictionaries tried: none, and one word with its type
CustomDicts == {[w \in {} |-> ""], [w \in {<<"zh">>} |-> "person"]}

\* the state after a call of a function on inputs: everything but args, pc
\* and result is as constructed
InitApply(position, inputs) ==
    /\ backend = "indexeddb"
    /\ documents = <<>>
    /\ entities = <<>>
    /\ relationships = <<>>
    /\ nextEntityId = 1
    /\ nextRelationshipId = 1
    /\ indexEntries = {}
    /\ entitySimilarity = <<>>
    /\ entityAliases = <<>>
    /\ variant = "database"
    /\ pc = position
    /\ args \in inputs
    /\ queue = <<>>
    /\ visited = {}
    /\ nodes = <<>>
    /\ edges = <<>>
    /\ stack = <<>>
    /\ result = <<>>
    /\ llmConfig = "none"
    /\ doc = NoDoc
    /\ locals = NoLocals
    /\ trace = <<>>
    /\ faults = {}
    /\ batch = NoBatch
    /\ calls = 0

\* the function returns value, having taken this path
Return(position, path, value) ==
    /\ pc' = position
    /\ trace' = <<path>>
    /\ result' = value
    /\ UNCHANGED <<storageVars, graphVars, llmConfig, doc, locals, faults, batch, calls>>

OccursAt(text, word, p) ==
    /\ p + Len(word) <= Len(text)
    /\ SubSeq(text, p + 1, p + Len(word)) = word

\* the mutant: the word is taken to start where the search starts
AtCurrentPos(text, word, from) == from
\* text.indexOf(word, from)
IndexOf(text, word, from) ==
    IF \E p \in from..Len(text) : OccursAt(text, word, p)
    THEN CHOOSE p \in from..Len(text) :
             OccursAt(text, word, p) /\ \A q \in from..(p - 1) : ~OccursAt(text, word, q)
    ELSE -1

Clamp(n, len) == IF n < 0 THEN 0 ELSE IF n > len THEN len ELSE n

\* text.substring(start, end)
Substring(text, start, end) ==
    LET s == Clamp(start, Len(text))
        e == Clamp(end, Len(text))
    IN  IF s <= e THEN SubSeq(text, s + 1, e) ELSE SubSeq(text, e + 1, s)

\* word.toLowerCase()
ToLowerCase(word) == [k \in 1..Len(word) |-> IF word[k] = "A" THEN "a" ELSE word[k]]

\* word.trim()
RECURSIVE Trim(_)
Trim(word) ==
    IF word = <<>> THEN word
    ELSE IF Head(word) = " " THEN Trim(Tail(word))
    ELSE IF word[Len(word)] = " " THEN Trim(SubSeq(word, 1, Len(word) - 1))
    ELSE word

AllIn(word, class) == word # <<>> /\ \A k \in 1..Len(word) : word[k] \in class

\* /^\d+(\.\d+)?$/
IsNumber(word) ==
    \/ AllIn(word, DigitChars)
    \/ \E k \in 2..(Len(word) - 1) :
           /\ word[k] = "."
           /\ AllIn(SubSeq(word, 1, k - 1), DigitChars)
           /\ AllIn(SubSeq(word, k + 1, Len(word)), DigitChars)

\* Tokenizer.determineTokenType
determineTokenType(word, customDict) ==
    IF word \in DOMAIN customDict THEN customDict[word]
    ELSE IF IsNumber(word) THEN "number"
    ELSE IF AllIn(word, Letters) THEN "english"
    ELSE IF AllIn(word, HanChars) THEN "chinese"
    ELSE IF AllIn(word, Chars \ (HanChars \cup Letters \cup DigitChars \cup {" "}))
    THEN "punctuation"
    ELSE "mixed"

\* length of the longest run of characters of the class from position p (1-based)
RECURSIVE RunLen(_, _, _)
RunLen(text, p, class) ==
    IF p > Len(text) \/ text[p] \notin class THEN 0 ELSE 1 + RunLen(text, p + 1, class)

\* text.match(/class+/g): the maximal runs, left to right
RECURSIVE Runs(_, _, _)
Runs(text, p, class) ==
    IF p > Len(text) THEN <<>>
    ELSE IF RunLen(text, p, class) = 0 THEN Runs(text, p + 1, class)
    ELSE <<SubSeq(text, p, p + RunLen(text, p, class) - 1)>>
             \o Runs(text, p + RunLen(text, p, class), class)

\* text.match(/\d+(\.\d+)?/g)
RECURSIVE NumberMatches(_, _)
NumberMatches(text, p) ==
    IF p > Len(text) THEN <<>>
    ELSE LET whole == RunLen(text, p, DigitChars)
             dot == p + whole
             fraction == IF whole > 0 /\ dot <= Len(text) /\ text[dot] = "."
                         THEN RunLen(text, dot + 1, DigitChars) ELSE 0
             length == IF fraction > 0 THEN whole + 1 + fraction ELSE whole
         IN  IF whole = 0 THEN NumberMatches(text, p + 1)
             ELSE <<SubSeq(text, p, p + length - 1)>> \o NumberMatches(text, p + length)

Token(word, start, type) ==
    [text |-> word, start |-> start, end |-> start + Len(word), type |-> type]

\* the forEach over jiebaResult: a word that is found moves currentPos on,
\* whether it is a stop word or not
RECURSIVE JiebaTokens(_, _, _, _, _)
JiebaTokens(text, words, currentPos, stop, customDict) ==
    IF words = <<>> THEN <<>>
    ELSE LET word == Head(words)
             start == IndexOf(text, word, currentPos)
             type == IF word \in DOMAIN customDict THEN customDict[word] ELSE "unknown"
         IN  IF start = -1
             THEN JiebaTokens(text, Tail(words), currentPos, stop, customDict)
             ELSE (IF word \in stop THEN <<>> ELSE <<Token(word, start, type)>>)
                      \o JiebaTokens(text, Tail(words), start + Len(word), stop, customDict)

\* the three forEach loops of fallbackTokenize: a word that is found and kept
\* is pushed and moves currentPos on; kind is the loop
RECURSIVE LocateWords(_, _, _, _, _, _)
LocateWords(text, words, currentPos, kind, stop, customDict) ==
    IF words = <<>> THEN <<>>
    ELSE LET word == Head(words)
             start == IndexOf(text, word, currentPos)
             kept == CASE kind = "chinese" -> word \notin stop
                       [] kind = "english" -> ToLowerCase(word) \notin stop
                       [] OTHER -> TRUE
             type == CASE kind = "chinese" -> "unknown"
                       [] kind = "english" -> determineTokenType(word, customDict)
                       [] OTHER -> "number"
         IN  IF start # -1 /\ kept
             THEN <<Token(word, start, type)>>
                      \o LocateWords(text, Tail(words), start + Len(word), kind, stop,
                                     customDict)
             ELSE LocateWords(text, Tail(words), currentPos, kind, stop, customDict)

\* tokens.sort((a, b) => a.start - b.start), a stable sort
RECURSIVE SortByStart(_)
SortByStart(tokens) ==
    IF tokens = <<>> THEN <<>>
    ELSE LET first == Head(tokens)
             rest == SortByStart(Tail(tokens))
         IN  SelectSeq(rest, LAMBDA t : t.start < first.start) \o <<first>>
                 \o SelectSeq(rest, LAMBDA t : t.start >= first.start)

\* Tokenizer.fallbackTokenize
fallbackTokenize(text, stop, customDict) ==
    LET chineseChars == [k \in 1..Len(SelectSeq(text, LAMBDA c : c \in HanChars)) |->
                            <<SelectSeq(text, LAMBDA c : c \in HanChars)[k]>>]
        englishWords == Runs(text, 1, Letters)
        numbers == NumberMatches(text, 1)
    IN  SortByStart(LocateWords(text, chineseChars, 0, "chinese", stop, customDict)
                        \o LocateWords(text, englishWords, 0, "english", stop, customDict)
                        \o LocateWords(text, numbers, 0, "number", stop, customDict))

\* the while loop over the regular expression of three alternatives: a run of
\* Han characters, a run of letters and digits, a run of other characters
\* that are not white space
RECURSIVE RegexTokens(_, _, _, _)
RegexTokens(text, p, stop, customDict) ==
    IF p > Len(text) THEN <<>>
    ELSE LET class == IF text[p] \in HanChars THEN HanChars
                      ELSE IF text[p] \in Letters \cup DigitChars
                      THEN Letters \cup DigitChars
                      ELSE IF text[p] = " " THEN {}
                      ELSE Chars \ (HanChars \cup Letters \cup DigitChars \cup {" "})
             length == RunLen(text, p, class)
             word == SubSeq(text, p, p + length - 1)
         IN  IF length = 0 THEN RegexTokens(text, p + 1, stop, customDict)
             ELSE (IF Trim(word) # <<>> /\ Trim(word) \notin stop
                   THEN <<Token(word, p - 1, determineTokenType(word, customDict))>>
                   ELSE <<>>)
                      \o RegexTokens(text, p + length, stop, customDict)

\* what nodejieba.cut may return: the text cut into consecutive words
RECURSIVE Segmentations(_)
Segmentations(text) ==
    IF text = <<>> THEN {<<>>}
    ELSE UNION {{<<SubSeq(text, 1, k)>> \o rest :
                    rest \in Segmentations(SubSeq(text, k + 1, Len(text)))} :
                k \in 1..Len(text)}

\* hasChinese && this.nodejieba && typeof this.nodejieba.cut === 'function'
UsesJieba == args.nodejieba /\ \E k \in 1..Len(args.text) : args.text[k] \in HanChars

\* if (!text || typeof text !== 'string') return []
TkEmptyText ==
    /\ pc = "tk_called"
    /\ args.text = <<>>
    /\ Return("tk_returned", "empty", <<>>)

\* the segmentation-engine branch
TkJieba(words) ==
    /\ pc = "tk_called"
    /\ args.text # <<>>
    /\ UsesJieba
    /\ Return("tk_returned", "jieba",
              JiebaTokens(args.text, words, 0, args.stopwords, args.customDict))

\* nodejieba.cut throws: catch, return this.fallbackTokenize(text)
TkJiebaThrows ==
    /\ pc = "tk_called"
    /\ args.text # <<>>
    /\ UsesJieba
    /\ Return("tk_returned", "jieba_threw",
              fallbackTokenize(args.text, args.stopwords, args.customDict))

\* else: return this.fallbackTokenize(text)
TkFallback ==
    /\ pc = "tk_called"
    /\ args.text # <<>>
    /\ ~UsesJieba
    /\ Return("tk_returned", "fallback",
              fallbackTokenize(args.text, args.stopwords, args.customDict))

\* else: the regular-expression loop (the other version of the else branch)
TkRegex ==
    /\ pc = "tk_called"
    /\ args.text # <<>>
    /\ ~UsesJieba
    /\ Return("tk_returned", "regex",
              RegexTokens(args.text, 1, args.stopwords, args.customDict))

InitTokenizer ==
    InitApply("tk_called", [text : Texts, stopwords : StopwordSets,
                            customDict : CustomDicts, nodejieba : BOOLEAN])

NextTokenizer ==
    \/ TkEmptyText
    \/ \E words \in Segmentations(args.text) : TkJieba(words)
    \/ TkJiebaThrows
    \/ TkFallback
    \/ TkRegex

SpecTokenizer == InitTokenizer /\ [][NextTokenizer]_vars

\* C19: on every path (segmentation engine, fallback, regular expression),
\* for every text, stop word set and custom dictionary, each returned token
\* satisfies text.substring(token.start, token.end) = token.text, and the
\* tokens are in non-decreasing order of start.
C19_TokensAreSubstringsInOrder ==
    pc = "tk_returned" =>
        /\ \A k \in 1..Len(result) :
               Substring(args.text, result[k].start, result[k].end) = result[k].text
        /\ \A k \in 1..(Len(result) - 1) : result[k].start <= result[k + 1].start

\* the fallback path found an English word in front of a Han character: the
\* Han loop ran first, and the sort put the English token first
C19_Witness ==
    /\ pc = "tk_returned"
    /\ trace = <<"fallback">>
    /\ Len(result) = 2
    /\ result[1].type = "english"
    /\ result[2].text = <<"zh">>
    /\ result[1].start < result[2].start
    /\ args.stopwords = {<<"de">>, <<"a">>}
    /\ "de" \in {args.text[k] : k \in 1..Len(args.text)}

-----------------------------------------------------------------------------
(***************************************************************************)
(* EntityFusion.buildSimilarityMatrix.  A name is a sequence of            *)
(* characters; a similarity is a fraction <<numerator, denominator>> in    *)
(* lowest terms, so that 1 - distance / maxLen, the halving and the        *)
(* averaging are exact.                                                    *)
(***************************************************************************)
MaxNameLen == 2       \* characters in an entity name

NameChars == {"a", "A", "b"}
Names     == SeqsUpTo(NameChars, MaxNameLen)

RECURSIVE Gcd(_, _)
Gcd(a, b) == IF b = 0 THEN a ELSE Gcd(b, a % b)

Fraction(n, d) == <<n \div Gcd(n, d), d \div Gcd(n, d)>>
Zero == Fraction(0, 1)
One  == Fraction(1, 1)
Times(x, y) == Fraction(x[1] * y[1], x[2] * y[2])
Plus(x, y)  == Fraction(x[1] * y[2] + y[1] * x[2], x[2] * y[2])
MathMax(x, y) == IF x[1] * y[2] >= y[1] * x[2] THEN x ELSE y
Min3(a, b, c) == IF a <= b /\ a <= c THEN a ELSE IF b <= c THEN b ELSE c

\* dp[i][j] of the Levenshtein matrix; characters are compared in lower case
RECURSIVE Levenshtein(_, _, _, _)
Levenshtein(str1, str2, i, j) ==
    IF i = 0 THEN j
    ELSE IF j = 0 THEN i
    ELSE LET cost == IF ToLowerCase(<<str1[i]>>) = ToLowerCase(<<str2[j]>>) THEN 0 ELSE 1
         IN  Min3(Levenshtein(str1, str2, i - 1, j) + 1,
                  Levenshtein(str1, str2, i, j - 1) + 1,
                  Levenshtein(str1, str2, i - 1, j - 1) + cost)

\* EntityFusion.calculateStringSimilarity
calculateStringSimilarity(str1, str2) ==
    LET len1 == Len(str1)
        len2 == Len(str2)
        maxLen == IF len1 >= len2 THEN len1 ELSE len2
        diff == IF len1 >= len2 THEN len1 - len2 ELSE len2 - len1
        distance == Levenshtein(str1, str2, len1, len2)
    IN  IF len1 = 0 \/ len2 = 0 THEN Zero
        ELSE IF 2 * diff > maxLen THEN Zero
        ELSE MathMax(Zero, Fraction(maxLen - distance, maxLen))

\* EntityFusion.calculateExactMatchSimilarity
calculateExactMatchSimilarity(entity1, entity2) ==
    IF entity1.name = entity2.name THEN One
    ELSE IF \E k \in 1..Len(entity1.aliases) : entity1.aliases[k] = entity2.name THEN One
    ELSE IF \E k \in 1..Len(entity2.aliases) : entity2.aliases[k] = entity1.name THEN One
    ELSE IF /\ entity1.normalizedName # ""
            /\ entity2.normalizedName # ""
            /\ entity1.normalizedName = entity2.normalizedName
    THEN One
    ELSE Zero

\* maxAliasSim after a loop over the aliases, str being the other name
RECURSIVE MaxAliasSim(_, _, _)
MaxAliasSim(aliases, str, maxAliasSim) ==
    IF aliases = <<>> THEN maxAliasSim
    ELSE MaxAliasSim(Tail(aliases), str,
                     MathMax(maxAliasSim, calculateStringSimilarity(Head(aliases), str)))

\* the mutant: only the aliases of entity1 are compared
OneSidedFuzzyMatch(entity1, entity2) ==
    MathMax(calculateStringSimilarity(entity1.name, entity2.name),
            MaxAliasSim(entity1.aliases, entity2.name, Zero))
\* EntityFusion.calculateFuzzyMatchSimilarity
calculateFuzzyMatchSimilarity(entity1, entity2) ==
    MathMax(calculateStringSimilarity(entity1.name, entity2.name),
            MaxAliasSim(entity2.aliases, entity1.name,
                        MaxAliasSim(entity1.aliases, entity2.name, Zero)))

\* EntityFusion.calculateSemanticSimilarity
calculateSemanticSimilarity(entity1, entity2) ==
    calculateFuzzyMatchSimilarity(entity1, entity2)

\* EntityFusion.calculateContextSimilarity: Jaccard over the two word sets
calculateContextSimilarity(entity1, entity2) ==
    LET set1 == Range(entity1.contextWords)
        set2 == Range(entity2.contextWords)
        intersectionSize == Cardinality(set1 \cap set2)
        unionSize == Cardinality(set1) + Cardinality(set2) - intersectionSize
    IN  IF entity1.contextWords = <<>> \/ entity2.contextWords = <<>> THEN Zero
        ELSE IF unionSize > 0 THEN Fraction(intersectionSize, unionSize)
        ELSE Zero

\* the body of the two loops for i # j
PairSimilarity(entity1, entity2, config) ==
    LET matched == CASE config.strategy = "exact_match" ->
                            calculateExactMatchSimilarity(entity1, entity2)
                      [] config.strategy = "fuzzy_match" ->
                            calculateFuzzyMatchSimilarity(entity1, entity2)
                      [] OTHER -> calculateSemanticSimilarity(entity1, entity2)
        typed == IF /\ config.considerType
                    /\ entity1.type # ""
                    /\ entity2.type # ""
                    /\ entity1.type # entity2.type
                 THEN Times(matched, Fraction(1, 2)) ELSE matched
    IN  IF config.considerContext
        THEN Times(Plus(typed, calculateContextSimilarity(entity1, entity2)), Fraction(1, 2))
        ELSE typed

\* EntityFusion.buildSimilarityMatrix: the loops run over j >= i and write
\* matrix[i][j] and matrix[j][i]
buildSimilarityMatrix(ents, config) ==
    [i \in 1..Len(ents) |-> [j \in 1..Len(ents) |->
        IF i = j THEN One
        ELSE IF i < j THEN PairSimilarity(ents[i], ents[j], config)
        ELSE PairSimilarity(ents[j], ents[i], config)]]

\* what an entity carries besides its name
FusionDetails ==
    {[aliases |-> <<>>, type |-> "", contextWords |-> <<>>, normalizedName |-> ""],
     [aliases |-> << <<"b">> >>, type |-> "person", contextWords |-> <<"w1">>,
      normalizedName |-> "n"],
     [aliases |-> << <<"b">>, <<"A">> >>, type |-> "location",
      contextWords |-> <<"w1", "w2">>, normalizedName |-> "n"],
     [aliases |-> <<>>, type |-> "person", contextWords |-> <<"w2", "w2">>,
      normalizedName |-> "m"]}

FusionEntities == {[name |-> n] @@ d : n \in Names, d \in FusionDetails}

FusionConfigs ==
    [strategy : {"exact_match", "fuzzy_match", "semantic_match"},
     considerType : BOOLEAN, considerContext : BOOLEAN]

\* buildSimilarityMatrix(entities, config), by the case of the switch
FuBuildMatrix(strategy) ==
    /\ pc = "fu_called"
    /\ args.config.strategy = strategy
    /\ Return("fu_returned", strategy, buildSimilarityMatrix(args.entities, args.config))

InitFusion ==
    InitApply("fu_called",
              [entities : {<<a, b>> : a \in FusionEntities, b \in FusionEntities},
               config : FusionConfigs])

NextFusion ==
    \/ FuBuildMatrix("exact_match")
    \/ FuBuildMatrix("fuzzy_match")
    \/ FuBuildMatrix("semantic_match")

SpecFusion == InitFusion /\ [][NextFusion]_vars

\* C20: for every pair of entities A, B, every strategy and every setting of
\* considerType and considerContext, the similarity computed for (A, B) equals
\* the one computed for (B, A); the matrix is symmetric and its diagonal is 1.
C20_SimilarityIsSymmetric ==
    pc = "fu_returned" =>
        LET swapped == buildSimilarityMatrix(<<args.entities[2], args.entities[1]>>,
                                             args.config)
        IN  /\ result[1][2] = swapped[1][2]
            /\ \A i, j \in 1..Len(result) : result[i][j] = result[j][i]
            /\ \A i \in 1..Len(result) : result[i][i] = One

\* a fuzzy match where only B has an alias close to A's name, with different
\* types and both options on: the value is neither 0 nor 1
C20_Witness ==
    /\ pc = "fu_returned"
    /\ trace = <<"fuzzy_match">>
    /\ args.config.considerType
    /\ args.config.considerContext
    /\ args.entities[1].aliases = <<>>
    /\ args.entities[2].aliases # <<>>
    /\ args.entities[1].type = "person"
    /\ args.entities[2].type = "location"
    /\ calculateStringSimilarity(args.entities[1].name, args.entities[2].name) = Zero
    /\ result[1][2] \notin {Zero, One}
    /\ result[1][2] = result[2][1]

-----------------------------------------------------------------------------
(***************************************************************************)
(* EntityFusion.execute and EntityFusion.mergeEntities over the store.     *)
(* EntityFusion handles entity ids as strings ("" stands for an absent id) *)
(* and entities that carry aliases, contextWords and occurrences; the      *)
(* storage methods it calls that no manager of the repository defines      *)
(* (updateEntity, insertEntityAlias, getEntityById,                        *)
(* updateRelationshipsTarget, updateRelationshipsSource) follow section    *)
(* 4.5 step 5 of the specification.                                        *)
(***************************************************************************)
MaxFusionCalls == 2   \* calls of execute / mergeEntities in one behaviour

FusionIds == <<"entity_1", "entity_2", "entity_3">>

\* id.startsWith('entity_')
StartsWithEntity(id) == id \in Range(FusionIds)

Geq(x, y) == x[1] * y[2] >= y[1] * x[2]

Indices(n) == [i \in 1..n |-> i]

\* the mutant: only a similarity above the threshold links two entities
SimilarAbove(similarityMatrix, current, seen, threshold) ==
    SelectSeq(Indices(Len(similarityMatrix[current])), LAMBDA i :
        /\ i \notin seen
        /\ ~Geq(threshold, similarityMatrix[current][i]))
\* the for loop of dfs: the indices pushed for `current`, in pushing order
SimilarUnvisited(similarityMatrix, current, seen, threshold) ==
    SelectSeq(Indices(Len(similarityMatrix[current])), LAMBDA i :
        /\ i \notin seen
        /\ Geq(similarityMatrix[current][i], threshold))

\* the while loop of EntityFusion.dfs; `seen` is the visited array
RECURSIVE dfsLoop(_, _, _, _, _)
dfsLoop(stk, similarityMatrix, seen, threshold, cluster) ==
    IF stk = <<>> THEN [cluster |-> cluster, seen |-> seen]
    ELSE LET current == stk[Len(stk)]
             popped == SubSeq(stk, 1, Len(stk) - 1)
         IN  IF current \in seen
             THEN dfsLoop(popped, similarityMatrix, seen, threshold, cluster)
             ELSE dfsLoop(popped \o SimilarUnvisited(similarityMatrix, current,
                                                     seen \cup {current}, threshold),
                          similarityMatrix, seen \cup {current}, threshold,
                          Append(cluster, current))

\* EntityFusion.dfs
dfs(start, similarityMatrix, seen, threshold) ==
    dfsLoop(<<start>>, similarityMatrix, seen, threshold, <<>>)

\* the for loop of EntityFusion.clusterEntities from index i on
RECURSIVE clusterLoop(_, _, _, _, _)
clusterLoop(i, similarityMatrix, seen, threshold, clusters) ==
    IF i > Len(similarityMatrix) THEN clusters
    ELSE IF i \in seen
    THEN clusterLoop(i + 1, similarityMatrix, seen, threshold, clusters)
    ELSE LET found == dfs(i, similarityMatrix, seen, threshold)
         IN  clusterLoop(i + 1, similarityMatrix, found.seen, threshold,
                         Append(clusters, found.cluster))

\* EntityFusion.clusterEntities
clusterEntities(similarityMatrix, threshold) ==
    clusterLoop(1, similarityMatrix, {}, threshold, <<>>)

\* Set.add on a Set kept in insertion order
AddUnique(seq, x) == IF x \in Range(seq) THEN seq ELSE Append(seq, x)

RECURSIVE AddAll(_, _)
AddAll(seq, xs) ==
    IF xs = <<>> THEN seq ELSE AddAll(AddUnique(seq, Head(xs)), Tail(xs))

\* the first loop of mergeEntityCluster over the cluster's entities
RECURSIVE CollectCluster(_, _)
CollectCluster(mergedEntity, ents) ==
    IF ents = <<>> THEN mergedEntity
    ELSE LET entity == Head(ents)
             named == IF /\ entity.id # ""
                         /\ entity.id # mergedEntity.id
                         /\ entity.name # mergedEntity.name
                      THEN AddUnique(mergedEntity.aliases, entity.name)
                      ELSE mergedEntity.aliases
         IN  CollectCluster(
                 [mergedEntity EXCEPT
                     !.aliases = AddAll(named, entity.aliases),
                     !.contextWords = AddAll(@, entity.contextWords),
                     !.occurrences = @ + (IF entity.occurrences = 0 THEN 1
                                          ELSE entity.occurrences)],
                 Tail(ents))

\* the store as the storage methods see it
Db == [entities |-> entities, relationships |-> relationships,
       entityAliases |-> entityAliases, entitySimilarity |-> entitySimilarity]

\* dbManager.updateEntity(entity): the stored row of that id is replaced
updateEntity(db, entity) ==
    [db EXCEPT !.entities = [k \in 1..Len(@) |->
                                 IF @[k].id = entity.id THEN entity ELSE @[k]]]

\* dbManager.insertEntityAlias({entityId, alias})
insertEntityAlias(db, entityId, alias) ==
    [db EXCEPT !.entityAliases = Append(@, [entityId |-> entityId, alias |-> alias])]

IdOrder(id) == CHOOSE k \in 1..Len(FusionIds) : FusionIds[k] = id

\* dbManager.addEntitySimilarity(id1, id2, score, method): the pair is stored
\* once, smaller id first
addEntitySimilarity(db, id1, id2, score, method) ==
    LET record == [entityId1 |-> IF IdOrder(id1) <= IdOrder(id2) THEN id1 ELSE id2,
                   entityId2 |-> IF IdOrder(id1) <= IdOrder(id2) THEN id2 ELSE id1,
                   score |-> score, method |-> method]
    IN  [db EXCEPT !.entitySimilarity =
            Append(SelectSeq(@, LAMBDA s : ~(/\ s.entityId1 = record.entityId1
                                             /\ s.entityId2 = record.entityId2)),
                   record)]

\* dbManager.updateRelationshipsTarget(oldId, newId)
updateRelationshipsTarget(db, oldId, newId) ==
    [db EXCEPT !.relationships = [k \in 1..Len(@) |->
        IF @[k].targetEntityId = oldId THEN [@[k] EXCEPT !.targetEntityId = newId]
        ELSE @[k]]]

\* dbManager.updateRelationshipsSource(oldId, newId)
updateRelationshipsSource(db, oldId, newId) ==
    [db EXCEPT !.relationships = [k \in 1..Len(@) |->
        IF @[k].sourceEntityId = oldId THEN [@[k] EXCEPT !.sourceEntityId = newId]
        ELSE @[k]]]

\* dbManager.getEntityById(id): the row, or <<>> for null
getEntityById(db, id) ==
    LET found == SelectSeq(db.entities, LAMBDA e : e.id = id)
    IN  IF found = <<>> THEN <<>> ELSE Head(found)

\* the mutant: alias and similarity record are written, the relationship
\* references stay as they are
RECURSIVE PersistWithoutRewrite(_, _, _)
PersistWithoutRewrite(db, mergedEntity, ents) ==
    IF ents = <<>> THEN db
    ELSE LET entity == Head(ents)
         IN  IF entity.id # "" /\ entity.id # mergedEntity.id
             THEN PersistWithoutRewrite(
                      addEntitySimilarity(
                          insertEntityAlias(db, mergedEntity.id, entity.name),
                          mergedEntity.id, entity.id, 10, "fusion"),
                      mergedEntity, Tail(ents))
             ELSE PersistWithoutRewrite(db, mergedEntity, Tail(ents))
\* the second loop of mergeEntityCluster: alias, similarity record and
\* relationship references of every other entity that has an id
RECURSIVE PersistMerged(_, _, _)
PersistMerged(db, mergedEntity, ents) ==
    IF ents = <<>> THEN db
    ELSE LET entity == Head(ents)
         IN  IF entity.id # "" /\ entity.id # mergedEntity.id
             THEN PersistMerged(
                      updateRelationshipsSource(
                          updateRelationshipsTarget(
                              addEntitySimilarity(
                                  insertEntityAlias(db, mergedEntity.id, entity.name),
                                  mergedEntity.id, entity.id, 10, "fusion"),
                              entity.id, mergedEntity.id),
                          entity.id, mergedEntity.id),
                      mergedEntity, Tail(ents))
             ELSE PersistMerged(db, mergedEntity, Tail(ents))

\* EntityFusion.mergeEntityCluster
mergeEntityCluster(mainEntity, clusterEnts, db) ==
    LET mergedEntity ==
            CollectCluster([mainEntity EXCEPT
                               !.aliases = AddAll(<<>>, @),
                               !.contextWords = AddAll(<<>>, @),
                               !.occurrences = 0],
                           clusterEnts)
    IN  [entity |-> mergedEntity,
         db |-> IF mergedEntity.id # ""
                THEN PersistMerged(updateEntity(db, mergedEntity), mergedEntity,
                                   clusterEnts)
                ELSE db]

\* mergedMap.set(entity.id, entity)
MergedMapSet(mergedMap, entity) ==
    [id \in DOMAIN mergedMap \cup {entity.id} |->
        IF id = entity.id THEN entity ELSE mergedMap[id]]

\* the loop of EntityFusion.mergeClusters; `merges` records, for every
\* cluster of more than one entity, the merged entity and the members
RECURSIVE mergeClusters(_, _, _)
mergeClusters(clusters, ents, acc) ==
    IF clusters = <<>> THEN acc
    ELSE LET cluster == Head(clusters)
             members == [k \in 1..Len(cluster) |-> ents[cluster[k]]]
             stored == SelectSeq(members, LAMBDA e : e.id # "" /\ StartsWithEntity(e.id))
             mainEntity == IF stored # <<>> THEN Head(stored) ELSE members[1]
             merged == mergeEntityCluster(mainEntity, members, acc.db)
         IN  IF Len(cluster) = 1
             THEN mergeClusters(Tail(clusters), ents,
                      IF members[1].id # ""
                      THEN [acc EXCEPT !.mergedMap = MergedMapSet(@, members[1])]
                      ELSE acc)
             ELSE mergeClusters(Tail(clusters), ents,
                      [mergedMap |-> IF merged.entity.id # ""
                                     THEN MergedMapSet(acc.mergedMap, merged.entity)
                                     ELSE acc.mergedMap,
                       db |-> merged.db,
                       merges |-> Append(acc.merges, [mergedEntity |-> merged.entity,
                                                      members |-> members])])

\* EntityFusion.mapToOriginalEntities
mapToOriginalEntities(mergedMap, originalEntities) ==
    [k \in 1..Len(originalEntities) |->
        IF originalEntities[k].id # "" /\ originalEntities[k].id \in DOMAIN mergedMap
        THEN mergedMap[originalEntities[k].id]
        ELSE originalEntities[k]]

\* what a stored entity is, besides its id
FusionRows ==
    {[name |-> <<"a">>, type |-> "person", contextWords |-> <<"w1">>],
     [name |-> <<"a">>, type |-> "person", contextWords |-> <<"w2">>],
     [name |-> <<"b">>, type |-> "person", contextWords |-> <<"w1", "w2">>],
     [name |-> <<"A">>, type |-> "location", contextWords |-> <<>>]}

FusionEntity(id, row) ==
    [id |-> id, name |-> row.name, type |-> row.type, aliases |-> <<>>,
     contextWords |-> row.contextWords, normalizedName |-> "", occurrences |-> 1]

FusionStores ==
    {[k \in 1..Len(FusionIds) |-> FusionEntity(FusionIds[k], rows[k])] :
        rows \in [1..Len(FusionIds) -> FusionRows]}

\* an extracted entity that has not been stored: it has no id
NewEntity ==
    [id |-> "", name |-> <<"A">>, type |-> "person", aliases |-> << <<"b">> >>,
     contextWords |-> <<"w2">>, normalizedName |-> "", occurrences |-> 0]

FusionRelationship(id, s, t) ==
    [id |-> id, sourceEntityId |-> s, targetEntityId |-> t, type |-> "associate",
     docId |-> "d1", confidence |-> 8]

FusionRelationships ==
    <<FusionRelationship(1, "entity_1", "entity_2"),
      FusionRelationship(2, "entity_2", "entity_3"),
      FusionRelationship(3, "entity_3", "entity_1")>>

Thresholds == {Fraction(1, 2), Fraction(4, 5)}

MergeConfigs ==
    [strategy : {"exact_match", "fuzzy_match", "semantic_match"},
     threshold : Thresholds, considerType : BOOLEAN, considerContext : BOOLEAN]

InitMerge ==
    /\ backend = "sqlite"
    /\ documents = <<>>
    /\ entities \in FusionStores
    /\ relationships = FusionRelationships
    /\ nextEntityId = 1
    /\ nextRelationshipId = 1
    /\ indexEntries = {}
    /\ entitySimilarity = <<>>
    /\ entityAliases = <<>>
    /\ variant = "database"
    /\ pc = "idle"
    /\ args \in [config : MergeConfigs]
    /\ queue = <<>>
    /\ visited = {}
    /\ nodes = <<>>
    /\ edges = <<>>
    /\ stack = <<>>
    /\ result = <<>>
    /\ llmConfig = "none"
    /\ doc = NoDoc
    /\ locals = NoLocals
    /\ trace = <<>>
    /\ faults = {}
    /\ batch = NoBatch
    /\ calls = 0

\* a call of the fusion interface starts; the store as it was is kept in the
\* call record
FusionCall(call) ==
    /\ pc \in {"idle", "fm_returned", "fm_thrown"}
    /\ calls < MaxFusionCalls
    /\ calls' = calls + 1
    /\ trace' = Append(trace, call @@ [before |-> Db])
    /\ UNCHANGED <<backend, documents, nextEntityId, nextRelationshipId, indexEntries,
                   graphVars, llmConfig, doc, faults, batch>>

\* the store after the call
StoreBecomes(db) ==
    /\ entities' = db.entities
    /\ relationships' = db.relationships
    /\ entityAliases' = db.entityAliases
    /\ entitySimilarity' = db.entitySimilarity

NoMerge == [allEntities |-> <<>>, clusters |-> <<>>, merges |-> <<>>]

\* EntityFusion.execute(entities, config), config being the one of this run
FmExecute(passed) ==
    /\ FusionCall([op |-> "execute", passed |-> passed])
    /\ LET fusionConfig == args.config
           existingEntities == getEntities("", "")
           allEntities == passed \o existingEntities
           similarityMatrix == buildSimilarityMatrix(allEntities, fusionConfig)
           clusters == clusterEntities(similarityMatrix, fusionConfig.threshold)
           merged == mergeClusters(clusters, allEntities,
                                   [mergedMap |-> <<>>, db |-> Db, merges |-> <<>>])
       IN  IF Len(passed) <= 1
           THEN /\ result' = passed
                /\ locals' = NoMerge
                /\ StoreBecomes(Db)
           ELSE /\ result' = mapToOriginalEntities(merged.mergedMap, passed)
                /\ locals' = [allEntities |-> allEntities, clusters |-> clusters,
                              merges |-> merged.merges]
                /\ StoreBecomes(merged.db)
    /\ pc' = "fm_returned"

\* EntityFusion.mergeEntities(sourceEntityId, targetEntityId)
FmMergeEntities(sourceEntityId, targetEntityId) ==
    /\ FusionCall([op |-> "mergeEntities", sourceEntityId |-> sourceEntityId,
                   targetEntityId |-> targetEntityId])
    /\ LET sourceEntity == getEntityById(Db, sourceEntityId)
           targetEntity == getEntityById(Db, targetEntityId)
           mergedEntity ==
               [targetEntity EXCEPT
                   !.aliases = AddAll(<<>>, @ \o sourceEntity.aliases
                                              \o <<sourceEntity.name>>),
                   !.contextWords = AddAll(<<>>, @ \o sourceEntity.contextWords),
                   !.occurrences = @ + sourceEntity.occurrences]
       IN  IF sourceEntity = <<>> \/ targetEntity = <<>>
           THEN /\ pc' = "fm_thrown"
                /\ result' = <<>>
                /\ locals' = NoMerge
                /\ StoreBecomes(Db)
           ELSE /\ pc' = "fm_returned"
                /\ result' = mergedEntity
                /\ locals' = [allEntities |-> <<targetEntity, sourceEntity>>,
                              clusters |-> << <<1, 2>> >>,
                              merges |-> <<[mergedEntity |-> mergedEntity,
                                            members |-> <<targetEntity, sourceEntity>>]>>]
                /\ StoreBecomes(
                       updateRelationshipsSource(
                           updateRelationshipsTarget(
                               addEntitySimilarity(
                                   insertEntityAlias(updateEntity(Db, mergedEntity),
                                                     targetEntityId, sourceEntity.name),
                                   targetEntityId, sourceEntityId, 10, "manual_fusion"),
                               sourceEntityId, targetEntityId),
                           sourceEntityId, targetEntityId))

\* the lists handed to execute: every stored entity as getAllEntities returned
\* them, one stored entity, one new entity, a new and a stored one, none
PassedLists ==
    {entities, <<entities[1]>>, <<NewEntity>>, <<NewEntity, entities[2]>>, <<>>}

NextMerge ==
    \/ \E passed \in PassedLists : FmExecute(passed)
    \/ \E sourceEntityId \in Range(FusionIds) \cup {"entity_9"},
          targetEntityId \in {"entity_1", "entity_2"} :
           FmMergeEntities(sourceEntityId, targetEntityId)

SpecMerge == InitMerge /\ [][NextMerge]_vars

\* the last call of the fusion interface
LastFusionCall == trace[Len(trace)]

\* execute has run through clustering and merging
ExecuteRan ==
    /\ pc = "fm_returned"
    /\ LastFusionCall.op = "execute"
    /\ locals.clusters # <<>>

\* the run put entities of these two ids into one cluster
SameCluster(id1, id2) ==
    \E c \in 1..Len(locals.clusters) :
        /\ \E k \in 1..Len(locals.clusters[c]) :
               locals.allEntities[locals.clusters[c][k]].id = id1
        /\ \E k \in 1..Len(locals.clusters[c]) :
               locals.allEntities[locals.clusters[c][k]].id = id2

\* C21: after a run of execute, a second run with the same config over the
\* stored entities finds no new merge: two stored entities that the first run
\* left in different clusters have a similarity below the threshold.
C21_SecondRunMergesNothingNew ==
    ExecuteRan =>
        \A a, b \in 1..Len(entities) :
            (a # b /\ ~SameCluster(entities[a].id, entities[b].id))
                => ~Geq(PairSimilarity(entities[a], entities[b], args.config),
                        args.config.threshold)

\* a fusion call has merged at least one cluster (or the pair)
Merged == pc = "fm_returned" /\ locals.merges # <<>>

ClusterIndexOf(i) ==
    CHOOSE c \in 1..Len(locals.clusters) :
        \E k \in 1..Len(locals.clusters[c]) : locals.clusters[c][k] = i

\* the merged entity of cluster c, a cluster of more than one entity
MergedEntityOf(c) ==
    locals.merges[Cardinality({d \in 1..c : Len(locals.clusters[d]) > 1})].mergedEntity

\* C23: execute returns one entity per input entity, in input order: the
\* merged entity of its cluster for an input entity whose cluster has more
\* than one member (main or merged away), the input entity itself otherwise.
C23_ReturnsMergedFormPerInput ==
    ExecuteRan =>
        LET passed == LastFusionCall.passed
        IN  /\ Len(result) = Len(passed)
            /\ \A k \in 1..Len(passed) :
                   result[k] = IF Len(locals.clusters[ClusterIndexOf(k)]) > 1
                               THEN MergedEntityOf(ClusterIndexOf(k))
                               ELSE passed[k]

\* C24: for every non-empty list passed to execute, a list of one entity
\* included, a passed entity whose similarity to another persisted entity
\* reaches the threshold is merged with it: the merged entity is written and,
\* when the passed entity has an id, so are an alias and a similarity record.
C24_PassedAreMergedWithPersisted ==
    (pc = "fm_returned" /\ LastFusionCall.op = "execute") =>
        LET before == LastFusionCall.before
            passed == LastFusionCall.passed
        IN  \A k \in 1..Len(passed), j \in 1..Len(before.entities) :
                (/\ before.entities[j].id # passed[k].id
                 /\ Geq(PairSimilarity(passed[k], before.entities[j], args.config),
                        args.config.threshold))
                    => /\ entities # before.entities
                       /\ passed[k].id # "" =>
                              /\ Len(entityAliases) > Len(before.entityAliases)
                              /\ \E s \in 1..Len(entitySimilarity) :
                                     /\ entitySimilarity[s].method = "fusion"
                                     /\ passed[k].id \in {entitySimilarity[s].entityId1,
                                                          entitySimilarity[s].entityId2}

\* the indices linked to one of S by a chain of pairs at or above the threshold
RECURSIVE LinkedTo(_, _, _)
LinkedTo(matrix, threshold, S) ==
    LET more == S \cup {j \in 1..Len(matrix) :
                           \E i \in S : Geq(matrix[i][j], threshold)}
    IN  IF more = S THEN S ELSE LinkedTo(matrix, threshold, more)

\* the members of cluster c, as a set
ClusterSet(c) == Range(locals.clusters[c])

\* C26: the clusters of a run partition the candidate indices, and two
\* candidates share a cluster exactly when a chain of candidates links them
\* whose consecutive pairs have a similarity at or above the threshold; two
\* candidates at or above the threshold are never in different clusters.
C26_ClustersAreLinkedComponents ==
    ExecuteRan =>
        LET n == Len(locals.allEntities)
            matrix == buildSimilarityMatrix(locals.allEntities, args.config)
            threshold == args.config.threshold
        IN  /\ \A i \in 1..n : \E c \in 1..Len(locals.clusters) : i \in ClusterSet(c)
            /\ \A c, d \in 1..Len(locals.clusters) :
                   c # d => ClusterSet(c) \cap ClusterSet(d) = {}
            /\ \A c \in 1..Len(locals.clusters) :
                   Cardinality(ClusterSet(c)) = Len(locals.clusters[c])
            /\ \A i \in 1..n :
                   ClusterSet(ClusterIndexOf(i)) = LinkedTo(matrix, threshold, {i})
            /\ \A i, j \in 1..n :
                   Geq(matrix[i][j], threshold) => ClusterIndexOf(i) = ClusterIndexOf(j)

\* a run with two clusters, one of which holds two candidates that are below
\* the threshold to each other and linked through a third
C26_Witness ==
    /\ ExecuteRan
    /\ Len(locals.clusters) = 2
    /\ LET matrix == buildSimilarityMatrix(locals.allEntities, args.config)
       IN  \E c \in 1..2 : \E i, j \in ClusterSet(c) :
               ~Geq(matrix[i][j], args.config.threshold)

-----------------------------------------------------------------------------
(***************************************************************************)
(* SearchAPI.searchDocuments and SearchAPI.advancedSearch.  An options     *)
(* object is a function whose domain is the set of fields it has; a score  *)
(* is a fraction in hundredths, Math.log being read from a table.          *)
(***************************************************************************)
\* options.<field>, with the value of the defaults object when it is absent
OptionOr(options, field, default) ==
    IF field \in DOMAIN options THEN options[field] ELSE default

\* {limit: 10, offset: 0, fuzzy: false, sortBy: "relevance", ...options}
WithSearchDefaults(options) ==
    [limit |-> OptionOr(options, "limit", 10),
     offset |-> OptionOr(options, "offset", 0),
     fuzzy |-> OptionOr(options, "fuzzy", FALSE),
     sortBy |-> OptionOr(options, "sortBy", "relevance")]

\* 100 * Math.log(totalDocuments / docFrequency), rounded, for up to three
\* documents
LogTimes100(totalDocuments, docFrequency) ==
    CASE totalDocuments = docFrequency -> 0
      [] totalDocuments = 2 /\ docFrequency = 1 -> 69
      [] totalDocuments = 3 /\ docFrequency = 1 -> 110
      [] totalDocuments = 3 /\ docFrequency = 2 -> 41

RECURSIVE SumOfFrequencies(_)
SumOfFrequencies(rows) ==
    IF rows = {} THEN 0
    ELSE LET row == CHOOSE r \in rows : TRUE
         IN  row.frequency + SumOfFrequencies(rows \ {row})

\* dbManager.getInvertedIndex(term, fuzzy): one posting per document that has
\* the term, with the fields tf-idf is computed from
getInvertedIndex(term, fuzzy) ==
    LET having == SelectSeq(documents, LAMBDA row :
                      \E e \in indexEntries : e.docId = row.docId /\ e.term = term)
    IN  [k \in 1..Len(having) |->
            [docId |-> having[k].docId,
             termFrequency |-> (CHOOSE e \in indexEntries :
                                   e.docId = having[k].docId /\ e.term = term).frequency,
             totalTokens |-> SumOfFrequencies({e \in indexEntries :
                                                  e.docId = having[k].docId}),
             docFrequency |-> Len(having),
             totalDocuments |-> Len(documents)]]

MapGet(m, key) == (CHOOSE i \in 1..Len(m) : m[i].key = key)

\* the inner loop of calculateDocumentRelevance over the postings of a token
RECURSIVE ScorePostings(_, _, _)
ScorePostings(indexes, token, docScoreMap) ==
    IF indexes = <<>> THEN docScoreMap
    ELSE LET index == Head(indexes)
             started == IF MapHas(docScoreMap, index.docId) THEN docScoreMap
                        ELSE MapSet(docScoreMap, index.docId,
                                    [score |-> Zero, highlights |-> <<>>])
             docScore == started[MapGet(started, index.docId)].value
             tfIdfScore == Fraction(index.termFrequency
                                        * LogTimes100(index.totalDocuments,
                                                      index.docFrequency),
                                    index.totalTokens)
         IN  ScorePostings(Tail(indexes), token,
                 MapSet(started, index.docId,
                        [score |-> Plus(docScore.score, tfIdfScore),
                         highlights |-> AddUnique(docScore.highlights, token.text)]))

\* the outer loop over the query tokens
RECURSIVE ScoreTokens(_, _, _)
ScoreTokens(queryTokens, options, docScoreMap) ==
    IF queryTokens = <<>> THEN docScoreMap
    ELSE ScoreTokens(Tail(queryTokens), options,
                     ScorePostings(getInvertedIndex(Head(queryTokens).text, options.fuzzy),
                                   Head(queryTokens), docScoreMap))

\* Array.sort with a comparator b.key - a.key: descending and stable
RECURSIVE SortDescending(_)
SortDescending(keyed) ==
    IF keyed = <<>> THEN <<>>
    ELSE LET first == Head(keyed)
             rest == SortDescending(Tail(keyed))
         IN  SelectSeq(rest, LAMBDA r : ~Geq(first.key, r.key)) \o <<first>>
                 \o SelectSeq(rest, LAMBDA r : Geq(first.key, r.key))

Unkeyed(keyed) == [k \in 1..Len(keyed) |-> keyed[k].value]

\* SearchAPI.calculateDocumentRelevance
calculateDocumentRelevance(queryTokens, options) ==
    LET docScoreMap == ScoreTokens(queryTokens, options, <<>>)
        results == [k \in 1..Len(docScoreMap) |->
                       [docId |-> docScoreMap[k].key,
                        score |-> docScoreMap[k].value.score,
                        highlights |-> docScoreMap[k].value.highlights]]
    IN  Unkeyed(SortDescending([k \in 1..Len(results) |->
                                   [key |-> results[k].score, value |-> results[k]]]))

\* results.slice(offset, offset + limit); offset + limit is NaN when either
\* field is absent, and slice(..., NaN) is empty
Slice(results, options) ==
    IF "offset" \notin DOMAIN options \/ "limit" \notin DOMAIN options THEN <<>>
    ELSE SubSeq(results, options.offset + 1,
                IF options.offset + options.limit < Len(results)
                THEN options.offset + options.limit ELSE Len(results))

\* SearchAPI.sortAndPaginate
sortAndPaginate(results, options) ==
    LET sortBy == OptionOr(options, "sortBy", "")
        KeyedBy(field) ==
            [k \in 1..Len(results) |->
                [key |-> CASE field = "score" -> results[k].score
                           [] field = "createdAt" -> Fraction(results[k].item.createdAt, 1)
                           [] OTHER -> Fraction(results[k].item.updatedAt, 1),
                 value |-> results[k]]]
        sortedResults ==
            CASE sortBy \in {"score", "relevance"} -> Unkeyed(SortDescending(KeyedBy("score")))
              [] sortBy = "createdAt" -> Unkeyed(SortDescending(KeyedBy("createdAt")))
              [] sortBy = "updatedAt" -> Unkeyed(SortDescending(KeyedBy("updatedAt")))
              [] OTHER -> results
    IN  Slice(sortedResults, options)

\* the loop of searchDocuments over the scored documents
SearchResults(docScores) ==
    LET found == SelectSeq(docScores, LAMBDA s : GetDocument(s.docId) # NoDoc)
    IN  [k \in 1..Len(found) |->
            [item |-> GetDocument(found[k].docId), score |-> found[k].score,
             highlights |-> found[k].highlights, matchPositions |-> <<>>]]

\* SearchAPI.searchDocuments(query, options)
searchDocuments(query, options) ==
    LET queryTokens == tokenize(query)
        searchOptions == WithSearchDefaults(options)
        docScores == calculateDocumentRelevance(queryTokens, searchOptions)
    IN  sortAndPaginate(SearchResults(docScores), searchOptions)

\* the filter of advancedSearch; a query has dateRange and tags when the
\* fields are in its domain, and a from or to of 0 is not applied
PassesFilters(query, found) ==
    LET d == found.item
    IN  /\ "dateRange" \in DOMAIN query =>
               /\ ~(query.dateRange.from # 0 /\ d.createdAt < query.dateRange.from)
               /\ ~(query.dateRange.to # 0 /\ d.createdAt > query.dateRange.to)
        /\ ("tags" \in DOMAIN query /\ query.tags # <<>>) =>
               Range(d.tags) \cap Range(query.tags) # {}

\* SearchAPI.advancedSearch(query, options)
advancedSearch(query, options) ==
    LET results == IF "text" \in DOMAIN query /\ query.text # <<>>
                   THEN searchDocuments(query.text, options)
                   ELSE <<>>
    IN  sortAndPaginate(SelectSeq(results, LAMBDA r : PassesFilters(query, r)), options)

\* the stored documents: three documents, each with one of the texts
SearchStores ==
    {<<[docId |-> "d1", title |-> "t", content |-> c[1], createdAt |-> 1,
        updatedAt |-> 1, tags |-> <<"x">>],
       [docId |-> "d2", title |-> "t", content |-> c[2], createdAt |-> 2,
        updatedAt |-> 2, tags |-> <<>>],
       [docId |-> "d3", title |-> "t", content |-> c[3], createdAt |-> 3,
        updatedAt |-> 3, tags |-> <<"y">>]>> : c \in [1..3 -> {T1, T2, T3}]}

QueryTexts == {<<"12">>, <<"34", "Beijingshi">>, EmptyText}

SearchQueries ==
    {[text |-> t] : t \in QueryTexts}
    \cup {[text |-> t, dateRange |-> [from |-> 2, to |-> 0]] : t \in QueryTexts}
    \cup {[text |-> t, tags |-> <<"x">>] : t \in QueryTexts}
    \cup {[text |-> t, dateRange |-> [from |-> 2, to |-> 3], tags |-> <<"x", "y">>] :
             t \in QueryTexts}

SearchOptionSets ==
    {<<>>, [sortBy |-> "createdAt"]}
    \cup [limit : {1, 10}, offset : {0, 1}]
    \cup [limit : {1, 10}, offset : {0, 1}, sortBy : {"relevance", "createdAt"}]

InitSearch ==
    /\ backend = "sqlite"
    /\ documents \in SearchStores
    /\ entities = <<>>
    /\ relationships = <<>>
    /\ nextEntityId = 1
    /\ nextRelationshipId = 1
    /\ indexEntries = UNION {IndexEntriesOf(documents[k].docId,
                                            tokenize(documents[k].content)) : k \in 1..3}
    /\ entitySimilarity = <<>>
    /\ entityAliases = <<>>
    /\ variant = "database"
    /\ pc = "sa_called"
    /\ args \in [query : SearchQueries, options : SearchOptionSets]
    /\ queue = <<>>
    /\ visited = {}
    /\ nodes = <<>>
    /\ edges = <<>>
    /\ stack = <<>>
    /\ result = <<>>
    /\ llmConfig = "none"
    /\ doc = NoDoc
    /\ locals = NoLocals
    /\ trace = <<>>
    /\ faults = {}
    /\ batch = NoBatch
    /\ calls = 0

\* searchAPI.searchDocuments(query.text, options)
SaSearchDocuments ==
    /\ pc = "sa_called"
    /\ Return("sa_returned", "searchDocuments",
              searchDocuments(args.query.text, args.options))

\* searchAPI.advancedSearch(query, options)
SaAdvancedSearch ==
    /\ pc = "sa_called"
    /\ Return("sa_returned", "advancedSearch", advancedSearch(args.query, args.options))

NextSearch == SaSearchDocuments \/ SaAdvancedSearch

SpecSearch == InitSearch /\ [][NextSearch]_vars

\* the documents matching the text, scored, before any sorting or paging
TextSearchResults(text) ==
    SearchResults(calculateDocumentRelevance(tokenize(text), WithSearchDefaults(<<>>)))

-----------------------------------------------------------------------------
(***************************************************************************)
(* The NetworkGraph handed to the graph view                               *)
(***************************************************************************)
\* the ids of the entities a finished getEntityGraph call returned
ResultNodeIds == {ResultNodes[k].id : k \in 1..Len(ResultNodes)}

\* C28: in every graph getEntityGraph returns, both endpoints of every edge
\* are among the returned nodes.
C28_EdgeEndpointsAreNodes ==
    pc = "done" =>
        \A i \in 1..Len(ResultEdges) :
            /\ ResultEdges[i].sourceEntityId \in ResultNodeIds
            /\ ResultEdges[i].targetEntityId \in ResultNodeIds


-----------------------------------------------------------------------------
(***************************************************************************)
(* getEntityGraph over one stored graph in every storage order             *)
(***************************************************************************)
\* A graph of NumEntities + 1 entities in which entity 3 is one hop from the
\* seed directly and two hops by way of entity 2, and the last entity hangs
\* off entity 3.
WideEdges ==
    {<<1, 2, "associate">>, <<2, 3, "associate">>, <<1, 3, "associate">>,
     <<3, NumEntities + 1, "associate">>}

\* the orders in which storage may return the rows of one table
Orders(S) ==
    {f \in [1..Cardinality(S) -> S] : \A i, j \in 1..Cardinality(S) : f[i] = f[j] => i = j}

InitGraphWide ==
    /\ backend = "sqlite"
    /\ documents = <<[docId |-> "d1", title |-> "t", content |-> <<>>]>>
    /\ indexEntries = {}
    /\ entitySimilarity = <<>>
    /\ entityAliases = <<>>
    /\ entities = [i \in 1..(NumEntities + 1) |-> StoredEntity(i)]
    /\ nextEntityId = NumEntities + 2
    /\ \E es \in Orders(WideEdges) :
          /\ relationships = [i \in 1..Len(es) |-> StoredRelationship(i, es[i])]
          /\ nextRelationshipId = Len(es) + 1
    /\ InitQuery

NextGraphWide ==
    \/ \E d \in 0..MaxDepthArg, r \in BOOLEAN : GetEntityGraphCall(1, d, r)
    \/ FetchEntityRelationsRel
    \/ GetEntityGraphReturn

SpecGraphWide == InitGraphWide /\ [][NextGraphWide]_vars

\* the entities one relationship away from a member of S, in the directions
\* the call follows
OneHop(S, includeReverse) ==
    {relationships[i].targetEntityId :
        i \in {k \in 1..Len(relationships) : relationships[k].sourceEntityId \in S}}
    \cup (IF includeReverse
          THEN {relationships[i].sourceEntityId :
                  i \in {k \in 1..Len(relationships) : relationships[k].targetEntityId \in S}}
          ELSE {})

\* the stored entities at hop distance at most d from the members of S
RECURSIVE WithinHops(_, _, _)
WithinHops(S, d, includeReverse) ==
    IF d = 0 THEN S \cap StoredEntityIds
    ELSE WithinHops((S \cup OneHop(S, includeReverse)) \cap StoredEntityIds, d - 1,
                    includeReverse)

\* C27: the nodes getEntityGraph(seed, {depth: d, includeReverse}) returns are
\* exactly the stored entities at hop distance at most d from the seed,
\* whatever the order in which storage returns the relationships.
C27_NodesAreTheEntitiesWithinDepth ==
    (pc = "done" /\ variant = "database") =>
        ResultNodeIds = WithinHops({args.entityId}, args.depth, args.includeReverse)


-----------------------------------------------------------------------------
(***************************************************************************)
(* EntityExtractor.extractByRules, one evaluation of regex.exec at a time  *)
(***************************************************************************)
\* Texts over a digit and a letter.
RuleTexts == SeqsUpTo({"7", "x"}, MaxTextLen)

\* positions are 0-based as in JavaScript: the character at index i
CharAt(text, i) == text[i + 1]

\* the length of the run of digits that starts at index i
RECURSIVE DigitRun(_, _)
DigitRun(text, i) ==
    IF i < Len(text) /\ CharAt(text, i) = "7" THEN 1 + DigitRun(text, i + 1) ELSE 0

\* the length of the match of the pattern that starts at index i, or -1:
\* \d+ needs one digit, \d* also matches the empty string
MatchLength(source, text, i) ==
    IF source = "\\d+" /\ DigitRun(text, i) = 0 THEN -1 ELSE DigitRun(text, i)

\* the built-in rule of type number over these texts, /\d+(\.\d+)?/g
NumberRule == [type |-> "number", source |-> "\\d+", global |-> TRUE]

\* rules a caller can pass to addCustomEntityType: with and without the
\* global flag, matching the empty string or not
CustomRules ==
    [type : {"custom", "number"}, source : {"\\d+", "\\d*"}, global : BOOLEAN]

\* new Map([...this.entityRules, ...this.customEntityTypes]): a custom type
\* is appended, a custom type named like a built-in one takes its place
AllEntityRules ==
    {<<NumberRule>>}
    \cup {IF c.type = "number" THEN <<c>> ELSE <<NumberRule, c>> : c \in CustomRules}

\* regex.exec(text) on a regex object [source, global, lastIndex]: the match
\* and the lastIndex the call leaves behind.  Without the global flag the
\* search starts at index 0 and lastIndex is not written.
RegExpExec(regex, text) ==
    LET start == IF regex.global THEN regex.lastIndex ELSE 0
        found == {i \in start..Len(text) : MatchLength(regex.source, text, i) >= 0}
    IN  IF found = {}
        THEN [match |-> FALSE, index |-> 0, length |-> 0,
              lastIndex |-> IF regex.global THEN 0 ELSE regex.lastIndex]
        ELSE LET index == CHOOSE i \in found : \A j \in found : i <= j
                 length == MatchLength(regex.source, text, index)
             IN  [match |-> TRUE, index |-> index, length |-> length,
                  lastIndex |-> IF regex.global THEN index + length ELSE regex.lastIndex]

InitRules == InitApply("rules_called", [text : RuleTexts, rules : AllEntityRules])

\* extract(text, docId) up to the first rule of extractByRules
ExtractCall ==
    /\ pc = "rules_called"
    /\ IF args.text = <<>>
       THEN /\ pc' = "rules_returned"
            /\ result' = <<>>
            /\ UNCHANGED locals
       ELSE /\ pc' = "rules_run"
            /\ locals' = [rule |-> 1, lastIndex |-> 0, entities |-> <<>>,
                          extractedPositions |-> {}]
            /\ UNCHANGED result
    /\ UNCHANGED <<storageVars, graphVars, llmConfig, doc, trace, faults, batch, calls>>

\* one evaluation of `while ((match = regex.exec(text)) !== null)` with the
\* loop body when there is a match, and the step to the next rule (a new
\* RegExp, lastIndex 0) when there is none
RuleExec ==
    /\ pc = "rules_run"
    /\ locals.rule <= Len(args.rules)
    /\ LET rule == args.rules[locals.rule]
           made == RegExpExec([source |-> rule.source, global |-> rule.global,
                               lastIndex |-> locals.lastIndex], args.text)
           positionKey == <<made.index, made.index + made.length>>
       IN  IF ~made.match
           THEN locals' = [locals EXCEPT !.rule = @ + 1, !.lastIndex = 0]
           ELSE locals' =
                  [locals EXCEPT
                     !.entities =
                        IF positionKey \in locals.extractedPositions THEN @
                        ELSE Append(@, [name |-> SubSeq(args.text, made.index + 1,
                                                        made.index + made.length),
                                        type |-> rule.type, docId |-> "d1",
                                        startPos |-> made.index,
                                        endPos |-> made.index + made.length,
                                        source |-> "rule", confidence |-> 7]),
                     !.extractedPositions = @ \cup {positionKey},
                     !.lastIndex = IF made.index = made.lastIndex
                                   THEN made.lastIndex + 1 ELSE made.lastIndex]
    /\ UNCHANGED <<storageVars, graphVars, pc, result, llmConfig, doc, trace, faults,
                   batch, calls>>

\* return entities
RulesReturn ==
    /\ pc = "rules_run"
    /\ locals.rule > Len(args.rules)
    /\ pc' = "rules_returned"
    /\ result' = locals.entities
    /\ UNCHANGED <<storageVars, graphVars, locals, llmConfig, doc, trace, faults, batch,
                   calls>>

NextRules == ExtractCall \/ RuleExec \/ RulesReturn

SpecRules == InitRules /\ [][NextRules]_vars

\* a call that has started keeps running: the loop is synchronous code
FairSpecRules == SpecRules /\ WF_vars(ExtractCall) /\ WF_vars(RuleExec) /\ WF_vars(RulesReturn)

\* C29: rule-based entity extraction returns for every text and every rule
\* list, custom patterns that match the empty string or lack the global flag
\* included.
C29_RuleExtractionTerminates == (pc = "rules_called") ~> (pc = "rules_returned")


-----------------------------------------------------------------------------
(***************************************************************************)
(* DatabaseManagerAdapter over its three managers.  With "milvus:<address>"*)
(* the rows of the two Milvus collections are kept in entities and         *)
(* relationships, and locals holds the connection flag of the manager.     *)
(***************************************************************************)
AdapterBackends == {"sqlite", "indexeddb", "milvus"}

\* entities.map(...) of MilvusManager.saveEntities, without the dummy vector
MilvusEntityData(ents) ==
    [k \in 1..Len(ents) |->
        [entity_id |-> ents[k].id, entity_name |-> ents[k].name,
         doc_id |-> ents[k].docId, entity_type |-> ents[k].type,
         confidence |-> ents[k].confidence, source |-> ents[k].source]]

\* relationships.map(...) of MilvusManager.saveRelationships
MilvusRelationshipData(rels) ==
    [k \in 1..Len(rels) |->
        [rel_id |-> KeyOf(rels[k]), source_entity_id |-> rels[k].sourceEntityId,
         target_entity_id |-> rels[k].targetEntityId, doc_id |-> rels[k].docId,
         rel_type |-> rels[k].type, confidence |-> rels[k].confidence,
         source |-> rels[k].source]]

\* client.insert into a collection whose primary key id is generated (autoID)
MilvusInsert(rows, nextId, data) ==
    [rows |-> rows \o [k \in 1..Len(data) |-> [id |-> nextId + k - 1] @@ data[k]],
     nextId |-> nextId + Len(data)]

\* new DatabaseManagerAdapter(dbPathOrType): connect() is started and not
\* awaited, so the adapter exists before the manager is connected
InitAdapter ==
    /\ backend \in AdapterBackends
    /\ documents = <<[docId |-> "d1", title |-> "t", content |-> T1]>>
    /\ entities = <<>>
    /\ relationships = <<>>
    /\ nextEntityId = 1
    /\ nextRelationshipId = 1
    /\ indexEntries = {}
    /\ entitySimilarity = <<>>
    /\ entityAliases = <<>>
    /\ variant = "database"
    /\ pc = "idle"
    /\ args = [sourceEntityId |-> NoId, targetEntityId |-> NoId, maxDepth |-> 0]
    /\ queue = <<>>
    /\ visited = {}
    /\ nodes = <<>>
    /\ edges = <<>>
    /\ stack = <<>>
    /\ result = <<>>
    /\ llmConfig = "none"
    /\ doc = NoDoc
    /\ locals = [isConnected |-> FALSE]
    /\ trace = <<>>
    /\ faults = {}
    /\ batch = NoBatch
    /\ calls = 0

\* MilvusManager.connect: the ping has been answered
MilvusConnect ==
    /\ backend = "milvus"
    /\ ~locals.isConnected
    /\ locals' = [isConnected |-> TRUE]
    /\ UNCHANGED <<storageVars, queryVars, llmConfig, doc, trace, faults, batch, calls>>

\* a call on the adapter: it is logged with the rows stored when it was made
AdapterCall(call) ==
    /\ StoreReady
    /\ trace' = Append(trace, call @@ [before |-> [entities |-> entities,
                                                    relationships |-> relationships]])
    /\ calls' = calls + 1
    /\ result' = <<>>
    /\ UNCHANGED <<backend, documents, indexEntries, entitySimilarity, entityAliases,
                   graphVars, llmConfig, doc, locals, faults, batch>>

\* adapter.saveEntities(ents)
AdSaveEntities(ents) ==
    /\ AdapterCall([op |-> "saveEntities", entities |-> ents])
    /\ IF backend = "milvus"
       THEN IF ~locals.isConnected
            THEN /\ pc' = "st_thrown"
                 /\ UNCHANGED <<entities, nextEntityId>>
            ELSE LET first == MilvusInsert(entities, nextEntityId, MilvusEntityData(ents))
                     second == MilvusInsert(first.rows, first.nextId, MilvusEntityData(ents))
                 IN  /\ entities' = second.rows
                     /\ nextEntityId' = second.nextId
                     /\ pc' = "st_returned"
       ELSE LET saved == IdbSaveEntities(entities, entities, nextEntityId, ents)
                threw == ents # <<>> /\ (~SaveEntitiesRuns \/ saved.failed)
            IN  /\ entities' = IF threw THEN entities ELSE saved.rows
                /\ nextEntityId' = IF threw THEN nextEntityId ELSE saved.nextId
                /\ pc' = IF threw THEN "st_thrown" ELSE "st_returned"
    /\ UNCHANGED <<relationships, nextRelationshipId>>

\* adapter.saveRelationships(rels)
AdSaveRelationships(rels) ==
    /\ AdapterCall([op |-> "saveRelationships", relationships |-> rels])
    /\ IF backend = "milvus"
       THEN IF ~locals.isConnected
            THEN /\ pc' = "st_thrown"
                 /\ UNCHANGED <<relationships, nextRelationshipId>>
            ELSE LET first == MilvusInsert(relationships, nextRelationshipId,
                                           MilvusRelationshipData(rels))
                     second == MilvusInsert(first.rows, first.nextId,
                                            MilvusRelationshipData(rels))
                 IN  /\ relationships' = second.rows
                     /\ nextRelationshipId' = second.nextId
                     /\ pc' = "st_returned"
       ELSE LET saved == IF rels = <<>>
                         THEN [rows |-> relationships, nextId |-> nextRelationshipId,
                               threw |-> FALSE]
                         ELSE IF backend = "sqlite" THEN SqlSaveRelationships(rels)
                         ELSE IdbSaveRelationships(rels)
            IN  /\ relationships' = saved.rows
                /\ nextRelationshipId' = saved.nextId
                /\ pc' = IF saved.threw THEN "st_thrown" ELSE "st_returned"
    /\ UNCHANGED <<entities, nextEntityId>>

\* relationships as the extractors hand them over: no id yet
AdapterRelationshipLists ==
    {<<StoreRelationship(1, 2)>>,
     <<StoreRelationship(1, 2), StoreRelationship(2, 1)>>,
     <<StoreRelationship(NoId, NoId)>>}

NextAdapter ==
    \/ MilvusConnect
    \/ \E ents \in StoreEntityLists : AdSaveEntities(ents)
    \/ \E rels \in AdapterRelationshipLists : AdSaveRelationships(rels)

SpecAdapter == InitAdapter /\ [][NextAdapter]_vars

\* does this stored row hold this entity / this relationship
HoldsEntity(row, entity) ==
    IF "entity_name" \in DOMAIN row
    THEN /\ row.entity_name = entity.name
         /\ row.doc_id = entity.docId
         /\ row.entity_type = entity.type
    ELSE /\ row.name = entity.name
         /\ row.docId = entity.docId
         /\ row.startPos = entity.startPos
         /\ row.endPos = entity.endPos

HoldsRelationship(row, rel) ==
    IF "rel_type" \in DOMAIN row
    THEN /\ row.source_entity_id = rel.sourceEntityId
         /\ row.target_entity_id = rel.targetEntityId
         /\ row.rel_type = rel.type
         /\ row.doc_id = rel.docId
    ELSE /\ row.sourceEntityId = rel.sourceEntityId
         /\ row.targetEntityId = rel.targetEntityId
         /\ row.type = rel.type
         /\ row.docId = rel.docId

\* after the call every passed item is held by a stored row, and the table
\* has grown by exactly the number of items passed
StoredOnce(before, after, passed, Holds(_, _)) ==
    /\ Len(after) = Len(before) + Len(passed)
    /\ \A k \in 1..Len(passed) : \E i \in 1..Len(after) : Holds(after[i], passed[k])

\* none of the passed items was stored before the call
NotYetStored(before, passed, Holds(_, _)) ==
    \A k \in 1..Len(passed) : \A i \in 1..Len(before) : ~Holds(before[i], passed[k])

\* C30: with each of the three backends, a call of adapter.saveEntities or
\* adapter.saveRelationships that returns has stored each passed item, not
\* stored before, exactly once.
C30_AdapterSavesEachItemOnce ==
    (pc = "st_returned" /\ trace # <<>>) =>
        /\ (LastCall.op = "saveEntities"
            /\ NotYetStored(LastCall.before.entities, LastCall.entities, HoldsEntity))
           => StoredOnce(LastCall.before.entities, entities, LastCall.entities, HoldsEntity)
        /\ (LastCall.op = "saveRelationships"
            /\ NotYetStored(LastCall.before.relationships, LastCall.relationships,
                            HoldsRelationship))
           => StoredOnce(LastCall.before.relationships, relationships,
                         LastCall.relationships, HoldsRelationship)

=========================================================================
